---- MODULE Spec2Model ----
(***************************************************************************)
(* NavigationController (live tracking and re-routing) as a state machine. *)
(*                                                                         *)
(* JavaScript runs one handler at a time: a handler runs from its entry to *)
(* its first pending await (or to its end) without interruption, and the   *)
(* rest of an async function runs as a later step once the awaited route   *)
(* computation settles.  Every action below is one such uninterrupted run. *)
(* Coordinates are metres on a local tangent plane; the great-circle       *)
(* distance is the planar Euclidean distance at that scale.                *)
(***************************************************************************)
EXTENDS Integers, Sequences, FiniteSets, Bags, TLC

VARIABLES
    isNavigating,      \* this.isNavigating
    currentRoute,      \* this.currentRoute (Null or a route)
    destination,       \* this.destination (Null or a position)
    currentPosition,   \* this.currentPosition (Null or a position)
    watchId,           \* this.watchId (NoWatch when null)
    navigationStats,   \* this.navigationStats
    lastRerouteTime,   \* this.lastRerouteTime
    isRerouting,       \* this.isRerouting
    liveWatches,       \* navigator.geolocation: ids of the live watchPosition subscriptions
    pending,           \* async calls suspended at `await RoutingService.getBestRoute(...)`
    now,               \* Date.now(), in seconds
    emitted,           \* events passed to notifyListeners by the last step, in order
    lastOp,            \* the handler that ran in the last step
    lastResult,        \* how that handler's call ended: "returned", "threw" or "pending"
    lastProvider,      \* how the awaited route computation settled, if the step resumed one
    lifecycle,         \* history: the latest of startNavigation() / stopNavigation()
    reachedCount,      \* history: 'destinationReached' events since the last startNavigation()
    reroutingAt,       \* history: <<time of the last 'rerouting' event>>, <<>> if none
    lastAccepted,      \* history: the latest sample handlePositionUpdate accepted
    navListeners,      \* NavigationController.listeners: the registered callbacks, in array order
    navDelivered,      \* per event of the last step, the callbacks notifyListeners called
    routeObjects,      \* RoutingService: the route objects in use, by reference
    cachedRoutes,      \* RoutingService.cachedRoutes: key -> array of route references
    fetching,          \* getBestRoute calls suspended at `await fetch(...)`
    routingStep,       \* what the last RoutingService step did
    resolvedKeys,      \* history: how getRouteOptions resolved per key since the last clearCache
    selectedRoutes,    \* history: references of the routes getBestRoute has returned
    storedHazards,     \* HazardService.hazards: the stored hazards, in array order
    listeners,         \* HazardService.listeners: the registered callbacks, in array order
    simulationStarted, \* HazardService: the timers of startSimulation() are running
    hazardClock,       \* minutes on the clock that stamps updatedAt
    hazardSerial,      \* hazards stored by addHazard so far (stands for the id suffix)
    hazardStep,        \* what the last HazardService call did
    hazardEvents       \* history: per hazard id, the events notifyListeners was called with

controllerVars ==
    <<isNavigating, currentRoute, destination, currentPosition, watchId,
      navigationStats, lastRerouteTime, isRerouting, liveWatches,
      pending, now, emitted, lastOp, lastResult, lastProvider, lifecycle, reachedCount,
      reroutingAt, lastAccepted, navListeners, navDelivered>>

routingVars ==
    <<routeObjects, cachedRoutes, fetching, routingStep, resolvedKeys, selectedRoutes>>

hazardVars ==
    <<storedHazards, listeners, simulationStarted, hazardClock, hazardSerial, hazardStep,
      hazardEvents>>

vars == <<controllerVars, routingVars, hazardVars>>

----------------------------------------------------------------------------
(* Bounds of the exploration *)

MaxPending == 2     \* suspended async calls at any time
MaxWatches == 2     \* watchPosition subscriptions live at any time
MaxTicks == 5       \* seconds the clock advances in all
MaxRouteObjects == 3   \* route objects in use at any time
MaxFetching == 2       \* provider requests in flight at any time

(* Program constants *)

RouteDeviationThreshold == 100   \* settings.routeDeviationThreshold, metres
RerouteDelay == 5                \* settings.rerouteDelay (5000 ms), in seconds
PositionUpdateInterval == 2      \* settings.positionUpdateInterval (2000 ms), in seconds
DestinationThreshold == 50       \* metres
FallbackSpacing == 1000          \* metres between fallback waypoints

Null == [null |-> TRUE]
NoWatch == 0

Pos(x, y) == [x |-> x, y |-> y]

(* The destination, 2 km east of the origin *)
Destinations == {Pos(2000, 0)}

(* Where a session may start *)
StartPositions == {Pos(0, 0)}

(* Position samples: at the origin, 150 m beside the road half way, and    *)
(* 30 m from the destination.                                              *)
Samples == {Pos(0, 0), Pos(1000, 150), Pos(2000, 30)}

----------------------------------------------------------------------------
(* Geometry *)

RECURSIVE ISqrtIter(_, _)
ISqrtIter(n, x) ==
    LET y == (x + n \div x) \div 2
    IN  IF y >= x THEN x ELSE ISqrtIter(n, y)

Abs(n) == IF n < 0 THEN 0 - n ELSE n

DistSq(a, b) == (a.x - b.x) * (a.x - b.x) + (a.y - b.y) * (a.y - b.y)

(* The distance in whole metres: the integer square root, by Newton's       *)
(* iteration from |dx| + |dy|, which is never below the root.               *)
haversineDistance(a, b) ==
    IF a = b THEN 0 ELSE ISqrtIter(DistSq(a, b), Abs(a.x - b.x) + Abs(a.y - b.y))

(* Index of the route vertex nearest to the position: the first minimum,   *)
(* as the scan replaces the candidate only on a strictly smaller distance. *)
findClosestIndex(position, routeCoords) ==
    CHOOSE i \in 1..Len(routeCoords) :
        /\ \A j \in 1..Len(routeCoords) :
              DistSq(position, routeCoords[i]) <= DistSq(position, routeCoords[j])
        /\ \A j \in 1..(i - 1) :
              DistSq(position, routeCoords[j]) > DistSq(position, routeCoords[i])

isOffRouteAt(position, route) ==
    DistSq(position, route.coordinates[findClosestIndex(position, route.coordinates)])
        > RouteDeviationThreshold * RouteDeviationThreshold

(* distanceToDestination < 50 *)
NearDestination(position, dest) ==
    DistSq(position, dest) < DestinationThreshold * DestinationThreshold

----------------------------------------------------------------------------
(* RoutingService, as far as the controller observes it *)

interpolatePoint(start, end, i, n) ==
    Pos(start.x + ((end.x - start.x) * i) \div n,
        start.y + ((end.y - start.y) * i) \div n)

Max(a, b) == IF a >= b THEN a ELSE b

(* The straight-line fallback: start, a waypoint about every kilometre, end *)
createFallbackRoute(start, end) ==
    LET distance == haversineDistance(start, end)
        numWaypoints == Max(2, distance \div FallbackSpacing)
    IN  [id |-> "fallback-route",
         coordinates |-> <<start>>
             \o [i \in 1..(numWaypoints - 1) |-> interpolatePoint(start, end, i, numWaypoints)]
             \o <<end>>,
         distance |-> distance]

(* The route parsed from a provider answer: the provider's road from start to end *)
parseORSResponse(start, end) ==
    [id |-> "route-0",
     coordinates |-> <<start, end>>,
     distance |-> haversineDistance(start, end)]

(* What the routing provider may answer to one request *)
ProviderOutcomes == {"ok", "failed"}

(* getBestRoute's result: a provider failure is caught and becomes the fallback *)
getBestRoute(start, end, provider) ==
    IF provider = "ok" THEN parseORSResponse(start, end)
    ELSE createFallbackRoute(start, end)

----------------------------------------------------------------------------
(* Statistics *)

InitStats == [distanceRemaining |-> 0, timeRemaining |-> 0]

(* A number is a whole number of its unit or NaN, which is written as a    *)
(* number no quantity of the model takes                                    *)
NaN == -2147483647
isNaN(v) == v = NaN

(* Math.max(0, Math.min(1, 1 - remainingDistance / route.distance)), in     *)
(* thousandths.  With route.distance 0 the quotient is Infinity and the     *)
(* result 0, unless remainingDistance is 0 too: 0 / 0 is NaN, and so are    *)
(* Math.min(1, NaN) and Math.max(0, NaN).                                   *)
routeProgress(remainingDistance, distance) ==
    IF distance = 0 THEN (IF remainingDistance = 0 THEN NaN ELSE 0)
    ELSE LET progress == 1000 - (remainingDistance * 1000) \div distance
         IN  IF progress < 0 THEN 0 ELSE IF progress > 1000 THEN 1000 ELSE progress

RECURSIVE RemainingFrom(_, _)
RemainingFrom(routeCoords, i) ==
    IF i >= Len(routeCoords) THEN 0
    ELSE haversineDistance(routeCoords[i], routeCoords[i + 1]) + RemainingFrom(routeCoords, i + 1)

(* updateNavigationStats: the stats after the call, given the fields it reads *)
updateNavigationStats(route, position, stats) ==
    IF route = Null \/ position = Null THEN stats
    ELSE LET routeCoords == route.coordinates
             idx == findClosestIndex(position, routeCoords)
             remaining == RemainingFrom(routeCoords, idx)
                              + haversineDistance(position, routeCoords[idx])
         IN  [distanceRemaining |-> remaining,
              timeRemaining |-> (remaining * 100 + 416) \div 833,
              routeProgress |-> routeProgress(remaining, route.distance)]

----------------------------------------------------------------------------
(* Events *)

Event(name, data) == [event |-> name, data |-> data]

EventNames(evs) == {evs[i].event : i \in 1..Len(evs)}

CountOf(evs, name) == Cardinality({i \in 1..Len(evs) : evs[i].event = name})

(* The callbacks registered with addListener: the component's own handler  *)
(* and one that throws whenever it is called                                *)
Callbacks == {"handleHazardEvent", "throwingListener"}

(* The first callback of the array that throws, the last one if none does  *)
FirstThrower(ls) ==
    IF \E i \in 1..Len(ls) : ls[i] = "throwingListener"
    THEN CHOOSE i \in 1..Len(ls) :
             ls[i] = "throwingListener" /\ \A j \in 1..(i - 1) : ls[j] /= "throwingListener"
    ELSE Len(ls)

(* A callback(event, data) call per element of this.listeners             *)
Delivery(event, called) == [event |-> event, called |-> called]

deliverUnguarded(ls, events) ==
    [i \in 1..Len(events) |-> Delivery(events[i].event, SubSeq(ls, 1, FirstThrower(ls)))]

(* NavigationController.notifyListeners, for the events of a step: forEach *)
(* calls every callback in array order and whatever one throws is caught    *)
(* and logged, so that the handler that notified runs on                    *)
deliver(ls, events) == [i \in 1..Len(events) |-> Delivery(events[i].event, ls)]

(* What a RoutingService step did: the call, its cache key, whether it      *)
(* contacted the provider, how the provider request settled, the array      *)
(* getRouteOptions resolved to (as it was before the sort), the hazards the *)
(* routes were scored against, how the call ended and <<the route it        *)
(* returned>>, if any.                                                      *)
RoutingStep(op, key, contacted, outcome, options, hazards, result, route) ==
    [op |-> op, key |-> key, contacted |-> contacted, outcome |-> outcome,
     options |-> options, hazards |-> hazards, result |-> result, route |-> route]

----------------------------------------------------------------------------
(* The hazard store's data.  Coordinates [lng, lat] are kept as positions  *)
(* of the same plane as the rest of the model, in metres east and north of *)
(* lng 0, lat 0: a degree of latitude is R * pi / 180 metres and a degree  *)
(* of longitude that times cos(19.076 deg), the latitude of the mock data. *)
MetersPerDegreeLat == 111195
MetersPerDegreeLng == 105089

(* v ten-thousandths of a degree, in metres (split to stay within 32 bits) *)
Scale(v, m) == (v \div 10000) * m + ((v % 10000) * m) \div 10000

FromDegrees(lngE4, latE4) ==
    Pos(Scale(lngE4, MetersPerDegreeLng), Scale(latE4, MetersPerDegreeLat))

(* Ids are `${prefix}-${suffix}`: 'acc-1' for the mock data; for a hazard   *)
(* stored by addHazard the prefix is its type and the suffix a timestamp    *)
(* and a random string, for which the count of hazards stored stands        *)
HazardId(prefix, suffix) == [prefix |-> prefix, suffix |-> suffix, stamped |-> FALSE]

StampedId(type, serial) == [prefix |-> type, suffix |-> serial, stamped |-> TRUE]

Properties(severity, description, updatedAt) ==
    [severity |-> severity, description |-> description, updatedAt |-> updatedAt]

StoredHazard(id, type, geometry, properties) ==
    [id |-> id, type |-> type, geometry |-> geometry, properties |-> properties]

MockPoint(prefix, n, type, lngE4, latE4, severity, description) ==
    StoredHazard(HazardId(prefix, n), type,
                 [type |-> "Point", coordinates |-> FromDegrees(lngE4, latE4)],
                 Properties(severity, description, 0))

MockArea(n, west, south, east, north, severity, description) ==
    StoredHazard(HazardId("risk", n), "riskArea",
                 [type |-> "Polygon",
                  coordinates |-> << <<FromDegrees(west, south), FromDegrees(east, south),
                                       FromDegrees(east, north), FromDegrees(west, north),
                                       FromDegrees(west, south)>> >>],
                 Properties(severity, description, 0))

MOCK_HAZARDS ==
    << MockPoint("acc", 1, "accident", 728777, 190760, 3, "Multi-vehicle collision"),
       MockPoint("acc", 2, "accident", 728649, 190436, 2, "Minor fender bender"),
       MockPoint("const", 1, "construction", 728795, 190656, 2, "Road widening work"),
       MockPoint("const", 2, "construction", 728697, 191176, 1, "Metro construction"),
       MockPoint("pot", 1, "pothole", 728443, 190186, 2, "Large pothole cluster"),
       MockPoint("pot", 2, "pothole", 728670, 190161, 1, "Small potholes"),
       MockPoint("portal", 1, "portal", 729053, 191172, 1, "Toll plaza"),
       MockPoint("portal", 2, "portal", 728876, 191041, 1, "Police checkpoint"),
       MockArea(1, 728600, 190400, 728700, 190500, 3, "High accident zone - Sion Circle area"),
       MockArea(2, 728750, 190600, 728850, 190700, 2, "Congestion prone area - Kurla Junction"),
       MockArea(3, 728650, 191100, 728750, 191200, 2, "Construction zone - Andheri MIDC") >>

(* A call of the hazard store: its argument, the value it returned and the  *)
(* notifyListeners calls it made                                            *)
HazardStep(op, arg, result, notifications) ==
    [op |-> op, arg |-> arg, result |-> result, notifications |-> notifications]

----------------------------------------------------------------------------
Init ==
    /\ isNavigating = FALSE
    /\ currentRoute = Null
    /\ destination = Null
    /\ currentPosition = Null
    /\ watchId = NoWatch
    /\ navigationStats = InitStats
    /\ lastRerouteTime = 0
    /\ isRerouting = FALSE
    /\ liveWatches = {}
    /\ pending = EmptyBag
    /\ now = RerouteDelay
    /\ emitted = <<>>
    /\ lastOp = "constructor"
    /\ lastResult = "returned"
    /\ lastProvider = "none"
    /\ lifecycle = "new"
    /\ reachedCount = 0
    /\ reroutingAt = <<>>
    /\ lastAccepted = Null
    /\ navListeners = <<>>
    /\ navDelivered = <<>>
    /\ routeObjects = <<>>
    /\ cachedRoutes = <<>>
    /\ fetching = EmptyBag
    /\ routingStep = RoutingStep("constructor", <<>>, FALSE, "none", <<>>, <<>>, "returned", <<>>)
    /\ resolvedKeys = <<>>
    /\ selectedRoutes = {}
    /\ storedHazards = MOCK_HAZARDS
    /\ listeners = <<>>
    /\ simulationStarted = FALSE
    /\ hazardClock = 0
    /\ hazardSerial = 0
    /\ hazardStep = HazardStep("constructor", Null, Null, <<>>)
    /\ hazardEvents = <<>>

----------------------------------------------------------------------------
(* The controller and the geolocation service as one record, so that the   *)
(* methods compose the way the calls nest in the code.  `events` collects   *)
(* the notifyListeners calls of the running handler and `result` how the    *)
(* running call ends.                                                       *)

Ctl ==
    [isNavigating |-> isNavigating, currentRoute |-> currentRoute,
     destination |-> destination, currentPosition |-> currentPosition,
     watchId |-> watchId, navigationStats |-> navigationStats,
     lastRerouteTime |-> lastRerouteTime, isRerouting |-> isRerouting,
     liveWatches |-> liveWatches,
     pending |-> pending, events |-> <<>>, result |-> "returned"]

notifyListeners(s, name, data) ==
    [s EXCEPT !.events = Append(s.events, Event(name, data))]

(* A suspended call: the arguments of the getBestRoute request it awaits   *)
(* and the locals of the handlePositionUpdate frame it belongs to, if any   *)
(* (previousPosition, which only travels into the event payload, is left    *)
(* out of the frame and of the payload).                                    *)
Task(kind, start, end, newPosition, isOffRoute) ==
    [kind |-> kind, start |-> start, end |-> end, newPosition |-> newPosition,
     isOffRoute |-> isOffRoute]

(* The suspended calls form a bag: the route computations settle in any     *)
(* order, and two calls may await with the same arguments.                  *)
Suspend(s, task) ==
    [s EXCEPT !.pending = s.pending (+) SetToBag({task}), !.result = "pending"]

Resume(s, task) == [s EXCEPT !.pending = s.pending (-) SetToBag({task})]

stopNavigation(s) ==
    notifyListeners(
        [s EXCEPT !.isNavigating = FALSE,
                  !.currentRoute = Null,
                  !.destination = Null,
                  !.watchId = NoWatch,
                  !.liveWatches = s.liveWatches \ {s.watchId}],
        "navigationStopped", Null)

(* The id watchPosition returns.  Ids are opaque handles: the smallest id   *)
(* that names no live subscription stands for the fresh one.                *)
FreshWatchId(live) ==
    CHOOSE n \in 1..(Cardinality(live) + 1) :
        n \notin live /\ \A m \in 1..(n - 1) : m \in live

startPositionTracking(s) ==
    LET id == FreshWatchId(s.liveWatches)
    IN  [s EXCEPT !.watchId = id, !.liveWatches = s.liveWatches \cup {id}]

refreshStats(s) ==
    [s EXCEPT !.navigationStats =
        updateNavigationStats(s.currentRoute, s.currentPosition, s.navigationStats)]

(* startNavigation up to its await *)
startNavigationCall(s, dest, position) ==
    LET s1 == IF s.isNavigating THEN stopNavigation(s) ELSE s
        s2 == [s1 EXCEPT !.destination = dest,
                         !.currentPosition = position,
                         !.isNavigating = TRUE,
                         !.isRerouting = FALSE]
    IN  Suspend(s2, Task("start", position, dest, Null, FALSE))

(* startNavigation after its await, the route obtained *)
startNavigationResolved(s, route) ==
    LET s1 == refreshStats([s EXCEPT !.currentRoute = route])
        s2 == startPositionTracking(s1)
    IN  notifyListeners(s2, "navigationStarted",
                        [route |-> s2.currentRoute, destination |-> s2.destination])

(* Variant of the catch block that leaves the session flagged as navigating *)
startNavigationFailedStaysActive(s) ==
    [s EXCEPT !.result = "threw"]

(* startNavigation's catch block *)
startNavigationFailed(s) ==
    [s EXCEPT !.isNavigating = FALSE, !.result = "threw"]

(* Variant that announces arrival without ending the session *)
handleDestinationReachedNoStop(s) ==
    notifyListeners(s, "destinationReached",
                    [destination |-> s.destination,
                     finalPosition |-> s.currentPosition])

handleDestinationReached(s) ==
    stopNavigation(
        notifyListeners(s, "destinationReached",
                        [destination |-> s.destination,
                         finalPosition |-> s.currentPosition]))

(* handlePositionUpdate from `updateNavigationStats()` to its end.  With    *)
(* this.destination null the distance computation dereferences null and    *)
(* the call ends with a TypeError.                                          *)
positionUpdateTail(s, newPosition, isOffRoute) ==
    LET s1 == refreshStats(s)
    IN  IF s1.destination = Null THEN [s1 EXCEPT !.result = "threw"]
        ELSE IF NearDestination(newPosition, s1.destination)
             THEN handleDestinationReached(s1)
             ELSE notifyListeners(s1, "positionUpdated",
                      [position |-> newPosition,
                       isOffRoute |-> isOffRoute,
                       stats |-> s1.navigationStats])

(* Variant of the cooldown test with the comparison inverted *)
TooSoonInverted(t, last) == t - last > RerouteDelay

(* handleRouteDeviation's cooldown test *)
TooSoon(t, last) == t - last < RerouteDelay

(* handleRouteDeviation up to its await *)
handleRouteDeviationCall(s, t, newPosition) ==
    LET s1 == [s EXCEPT !.isRerouting = TRUE, !.lastRerouteTime = t]
    IN  Suspend(notifyListeners(s1, "rerouting", Null),
                Task("deviation", s1.currentPosition, s1.destination,
                     newPosition, TRUE))

(* handleRouteDeviation after its await, the route obtained *)
handleRouteDeviationResolved(s, newRoute) ==
    LET s1 == refreshStats([s EXCEPT !.currentRoute = newRoute])
        s2 == notifyListeners(s1, "routeUpdated",
                              [route |-> s1.currentRoute, reason |-> "deviation"])
    IN  [s2 EXCEPT !.isRerouting = FALSE]

(* Variant of the catch block that also discards the tracked route *)
handleRouteDeviationFailedDropsRoute(s) ==
    [notifyListeners(s, "rerouteError", Null)
        EXCEPT !.isRerouting = FALSE, !.currentRoute = Null]

(* handleRouteDeviation's catch and finally blocks *)
handleRouteDeviationFailed(s) ==
    [notifyListeners(s, "rerouteError", Null) EXCEPT !.isRerouting = FALSE]

(* forceReroute's entry test *)
forceRerouteGuard(s) ==
    s.isNavigating /\ s.currentPosition /= Null /\ s.destination /= Null

(* forceReroute up to its await *)
forceRerouteCall(s) ==
    Suspend([s EXCEPT !.isRerouting = TRUE],
            Task("force", s.currentPosition, s.destination, Null, FALSE))

(* forceReroute after its await, the route obtained *)
forceRerouteResolved(s, newRoute) ==
    LET s1 == refreshStats([s EXCEPT !.currentRoute = newRoute])
        s2 == notifyListeners(s1, "routeUpdated",
                              [route |-> s1.currentRoute, reason |-> "manual"])
    IN  [s2 EXCEPT !.isRerouting = FALSE]

(* forceReroute's catch and finally blocks *)
forceRerouteFailed(s) ==
    [s EXCEPT !.isRerouting = FALSE, !.result = "threw"]

(* The error callback of watchPosition, invoked with the position source's  *)
(* error (here its timeout): it only announces the error.                   *)
GeolocationError == [error |-> "timeout"]

handlePositionErrorStops(s) ==
    stopNavigation(notifyListeners(s, "positionError", GeolocationError))

handlePositionError(s) == notifyListeners(s, "positionError", GeolocationError)

----------------------------------------------------------------------------
(* One step: the handler `op` took the controller to s, its notifyListeners *)
(* calls made the deliveries and left the listeners ls.                     *)
CommitDelivered(s, op, life, provider, accepted, ls, deliveries) ==
    /\ isNavigating' = s.isNavigating
    /\ currentRoute' = s.currentRoute
    /\ destination' = s.destination
    /\ currentPosition' = s.currentPosition
    /\ watchId' = s.watchId
    /\ navigationStats' = s.navigationStats
    /\ lastRerouteTime' = s.lastRerouteTime
    /\ isRerouting' = s.isRerouting
    /\ liveWatches' = s.liveWatches
    /\ pending' = s.pending
    /\ emitted' = s.events
    /\ lastOp' = op
    /\ lastResult' = s.result
    /\ lastProvider' = provider
    /\ lifecycle' = IF life = "start" THEN "started"
                    ELSE IF "navigationStopped" \in EventNames(s.events) THEN "stopped"
                    ELSE lifecycle
    /\ reachedCount' = (IF life = "start" THEN 0 ELSE reachedCount)
                           + CountOf(s.events, "destinationReached")
    /\ reroutingAt' = IF "rerouting" \in EventNames(s.events) THEN <<now>> ELSE reroutingAt
    /\ lastAccepted' = IF accepted = Null THEN lastAccepted ELSE accepted
    /\ navListeners' = ls
    /\ navDelivered' = deliveries
    /\ now' = now
    /\ UNCHANGED <<routingVars, hazardVars>>

(* One step with callbacks that leave this.listeners as it is *)
Commit(s, op, life, provider, accepted) ==
    CommitDelivered(s, op, life, provider, accepted, navListeners,
                    deliver(navListeners, s.events))

PendingOf(kind) == {t \in BagToSet(pending) : t.kind = kind}

StartNavigation ==
    \E dest \in Destinations, position \in StartPositions :
        /\ BagCardinality(pending) < MaxPending
        /\ Commit(startNavigationCall(Ctl, dest, position), "startNavigation", "start", "none", Null)

StartNavigationResolved ==
    \E t \in PendingOf("start"), provider \in ProviderOutcomes :
        /\ Cardinality(liveWatches) < MaxWatches
        /\ Commit(startNavigationResolved(Resume(Ctl, t),
                      getBestRoute(t.start, t.end, provider)),
                  "startNavigation.resume", "none", provider, Null)

(* getBestRoute rejects (route scoring throws) *)
StartNavigationRejected ==
    \E t \in PendingOf("start") :
        Commit(startNavigationFailed(Resume(Ctl, t)), "startNavigation.resume", "none", "threw", Null)

StopNavigation ==
    \E s \in {stopNavigation(Ctl)} :
        Commit(s, "stopNavigation", "none", "none", Null)

(* A sample from a live watch while there is nothing to track *)
PositionUpdateIgnored ==
    \E newPosition \in Samples :
        /\ liveWatches /= {}
        /\ ~isNavigating \/ currentRoute = Null
        /\ Commit(Ctl, "handlePositionUpdate", "none", "none", Null)

(* A live watch reports an error of the position source *)
PositionError ==
    /\ liveWatches /= {}
    /\ Commit(handlePositionError(Ctl), "positionError", "none", "none", Null)

(* A sample handled without a reroute request *)
PositionUpdateAt(newPosition) ==
    /\ liveWatches /= {}
    /\ isNavigating /\ currentRoute /= Null
    /\ LET off == isOffRouteAt(newPosition, currentRoute)
       IN  /\ ~(off /\ ~isRerouting /\ ~TooSoon(now, lastRerouteTime))
           /\ Commit(positionUpdateTail([Ctl EXCEPT !.currentPosition = newPosition],
                                        newPosition, off),
                     "handlePositionUpdate", "none", "none", newPosition)

PositionUpdate == \E newPosition \in Samples : PositionUpdateAt(newPosition)

(* An off-route sample that starts a deviation reroute and waits for it *)
PositionUpdateDeviatesAt(newPosition) ==
    /\ liveWatches /= {}
    /\ isNavigating /\ currentRoute /= Null
    /\ isOffRouteAt(newPosition, currentRoute)
    /\ ~isRerouting
    /\ ~TooSoon(now, lastRerouteTime)
    /\ BagCardinality(pending) < MaxPending
    /\ Commit(handleRouteDeviationCall([Ctl EXCEPT !.currentPosition = newPosition],
                                       now, newPosition),
              "handlePositionUpdate", "none", "none", newPosition)

PositionUpdateDeviates == \E newPosition \in Samples : PositionUpdateDeviatesAt(newPosition)

DeviationResolved ==
    \E t \in PendingOf("deviation"), provider \in ProviderOutcomes :
        Commit(positionUpdateTail(
                   handleRouteDeviationResolved(Resume(Ctl, t),
                       getBestRoute(t.start, t.end, provider)),
                   t.newPosition, t.isOffRoute),
               "handlePositionUpdate.resume", "none", provider, Null)

DeviationRejected ==
    \E t \in PendingOf("deviation") :
        Commit(positionUpdateTail(handleRouteDeviationFailed(Resume(Ctl, t)),
                   t.newPosition, t.isOffRoute),
               "handlePositionUpdate.resume", "none", "threw", Null)

ForceRerouteIgnored ==
    /\ ~forceRerouteGuard(Ctl)
    /\ Commit(Ctl, "forceReroute", "none", "none", Null)

ForceReroute ==
    /\ forceRerouteGuard(Ctl)
    /\ BagCardinality(pending) < MaxPending
    /\ Commit(forceRerouteCall(Ctl), "forceReroute", "none", "none", Null)

ForceRerouteResolved ==
    \E t \in PendingOf("force"), provider \in ProviderOutcomes :
        Commit(forceRerouteResolved(Resume(Ctl, t),
                   getBestRoute(t.start, t.end, provider)),
               "forceReroute.resume", "none", provider, Null)

ForceRerouteRejected ==
    \E t \in PendingOf("force") :
        Commit(forceRerouteFailed(Resume(Ctl, t)), "forceReroute.resume", "none", "threw", Null)

(* The clock is read only by the cooldown test, as now - lastRerouteTime.   *)
(* It is advanced to the instants that test tells apart: one position       *)
(* update interval after the last reroute began, inside the cooldown, and   *)
(* the end of the cooldown, beyond which a later reading changes nothing.   *)
Tick ==
    /\ \E elapsed \in {PositionUpdateInterval, RerouteDelay} :
          /\ elapsed > now - lastRerouteTime
          /\ lastRerouteTime + elapsed <= RerouteDelay + MaxTicks
          /\ now' = lastRerouteTime + elapsed
    /\ emitted' = <<>>
    /\ navDelivered' = <<>>
    /\ lastOp' = "tick"
    /\ lastResult' = "returned"
    /\ lastProvider' = "none"
    /\ UNCHANGED <<isNavigating, currentRoute, destination, currentPosition, watchId,
                   navigationStats, lastRerouteTime, isRerouting, liveWatches,
                   pending, lifecycle, reachedCount, reroutingAt,
                   lastAccepted, navListeners>>
    /\ UNCHANGED <<routingVars, hazardVars>>

Next ==
    \/ StartNavigation
    \/ StartNavigationResolved
    \/ StartNavigationRejected
    \/ StopNavigation
    \/ PositionUpdateIgnored
    \/ PositionUpdate
    \/ PositionUpdateDeviates
    \/ PositionError
    \/ DeviationResolved
    \/ DeviationRejected
    \/ ForceRerouteIgnored
    \/ ForceReroute
    \/ ForceRerouteResolved
    \/ ForceRerouteRejected
    \/ Tick

Spec == Init /\ [][Next]_vars

----------------------------------------------------------------------------
(* Properties *)

RerouteTasks ==
    LET reroutes == PendingOf("deviation") \cup PendingOf("force")
    IN  [t \in reroutes |-> pending[t]]

PositionOps == {"handlePositionUpdate", "handlePositionUpdate.resume"}

SessionFieldsUnchanged ==
    /\ isNavigating' = isNavigating
    /\ currentRoute' = currentRoute
    /\ destination' = destination
    /\ currentPosition' = currentPosition
    /\ watchId' = watchId
    /\ navigationStats' = navigationStats
    /\ lastRerouteTime' = lastRerouteTime
    /\ isRerouting' = isRerouting

(* C1: at most one reroute route computation (a getBestRoute call issued by *)
(* handleRouteDeviation or forceReroute) is in flight at any time.          *)
C1_SingleRerouteInFlight == BagCardinality(RerouteTasks) <= 1

(* C2: forceReroute called while isRerouting is true requests no route,     *)
(* changes no controller field and emits no event.                          *)
C2_ForceRerouteDroppedWhileRerouting ==
    [][(lastOp' = "forceReroute" /\ isRerouting)
          => (pending' = pending /\ SessionFieldsUnchanged /\ emitted' = <<>>)]_vars

(* C3: after stopNavigation() and until the next startNavigation, a         *)
(* position update or reroute computation that was in flight emits no       *)
(* positionUpdated, rerouting, routeUpdated or rerouteError event, and      *)
(* currentRoute stays null.                                                 *)
C3_NoWorkAfterStop ==
    [][(lifecycle = "stopped" /\ lifecycle' = "stopped"
            /\ lastOp' \in PositionOps \cup {"forceReroute.resume"})
          => /\ EventNames(emitted') \cap
                    {"positionUpdated", "rerouting", "routeUpdated", "rerouteError"} = {}
             /\ (currentRoute = Null => currentRoute' = Null)]_vars

(* C4: at most one position-watch subscription is live at any time, also    *)
(* when startNavigation is called while an earlier call awaits its route.   *)
C4_OneLiveSubscription == Cardinality(liveWatches) <= 1

(* C5: a 'rerouting' event is emitted only if at least rerouteDelay has     *)
(* elapsed since the previous 'rerouting' event; a position sample handled  *)
(* less than rerouteDelay after a 'rerouting' event (2 s after, say) emits  *)
(* no 'rerouting' and requests no route.                                    *)
C5_CooldownThrottlesRerouting ==
    [][/\ ("rerouting" \in EventNames(emitted'))
             => (reroutingAt = <<>> \/ now' - reroutingAt[1] >= RerouteDelay)
       /\ (lastOp' = "handlePositionUpdate" /\ reroutingAt /= <<>>
               /\ now - reroutingAt[1] < RerouteDelay)
             => ("rerouting" \notin EventNames(emitted') /\ pending' = pending)]_vars

(* C5 witness: an off-route sample was handled 2 s after a reroute began,   *)
(* with that reroute already finished, and started nothing.                 *)
C5_Witness ==
    /\ lastOp = "handlePositionUpdate"
    /\ reroutingAt /= <<>> /\ now - reroutingAt[1] = 2
    /\ ~isRerouting /\ pending = EmptyBag
    /\ \E i \in 1..Len(emitted) :
          emitted[i].event = "positionUpdated" /\ emitted[i].data.isOffRoute

(* C6: an Active session that handles a sample closer than 50 m to the      *)
(* destination returns to Idle and emits 'destinationReached' once; every   *)
(* 'destinationReached' ends the session, and no second one is emitted      *)
(* before the next startNavigation.                                         *)
C6_DestinationReachedOnce ==
    [][/\ (lastOp' = "handlePositionUpdate" /\ lastResult' = "returned"
               /\ isNavigating /\ currentRoute /= Null /\ destination /= Null
               /\ NearDestination(currentPosition', destination))
             => (~isNavigating' /\ CountOf(emitted', "destinationReached") = 1)
       /\ ("destinationReached" \in EventNames(emitted'))
             => (~isNavigating' /\ CountOf(emitted', "destinationReached") = 1
                    /\ reachedCount' = 1)]_vars

(* C6 witness: the session has just ended on arrival *)
C6_Witness ==
    /\ lastOp = "handlePositionUpdate"
    /\ EventNames(emitted) = {"destinationReached", "navigationStopped"}
    /\ ~isNavigating /\ reachedCount = 1

(* C7 as stated: when the routing provider fails during a deviation         *)
(* reroute, currentRoute is the route from before the reroute, a            *)
(* 'rerouteError' event is emitted and isRerouting is false afterwards.     *)
C7_ProviderFailureKeepsRoute ==
    [][(lastOp' = "handlePositionUpdate.resume" /\ lastProvider' = "failed")
          => /\ currentRoute' = currentRoute
             /\ "rerouteError" \in EventNames(emitted')
             /\ ~isRerouting']_vars

(* C7 amended: when the route computation of a deviation reroute rejects, a *)
(* 'rerouteError' event is emitted, no 'routeUpdated', isRerouting is false *)
(* afterwards and currentRoute and isNavigating are left as they were       *)
(* (unless the resumed position update then detects arrival and stops the   *)
(* session); a routing provider failure does not reject: the fallback route *)
(* replaces currentRoute and is announced by 'routeUpdated'.                *)
C7_RejectionKeepsRoute ==
    [][(lastOp' = "handlePositionUpdate.resume")
          => /\ ~isRerouting'
             /\ (lastProvider' = "threw")
                   => /\ "rerouteError" \in EventNames(emitted')
                      /\ "routeUpdated" \notin EventNames(emitted')
                      /\ \/ "destinationReached" \in EventNames(emitted')
                         \/ (currentRoute' = currentRoute /\ isNavigating' = isNavigating)
             /\ (lastProvider' = "failed")
                   => /\ "rerouteError" \notin EventNames(emitted')
                      /\ \E i \in 1..Len(emitted') :
                            /\ emitted'[i].event = "routeUpdated"
                            /\ emitted'[i].data.reason = "deviation"
                            /\ emitted'[i].data.route.id = "fallback-route"
                      /\ \/ "destinationReached" \in EventNames(emitted')
                         \/ currentRoute'.id = "fallback-route"]_vars

(* C7 witness: a deviation reroute of an Active session has just rejected *)
C7_Witness ==
    /\ lastOp = "handlePositionUpdate.resume" /\ lastProvider = "threw"
    /\ "rerouteError" \in EventNames(emitted)
    /\ isNavigating /\ currentRoute /= Null /\ ~isRerouting

(* C8: when the route computation of startNavigation rejects, the call      *)
(* ends with the error, isNavigating is false afterwards, no                *)
(* 'navigationStarted' is emitted and no position subscription is created.  *)
C8_StartFailureIsIdle ==
    [][(lastOp' = "startNavigation.resume" /\ lastProvider' = "threw")
          => /\ lastResult' = "threw"
             /\ ~isNavigating'
             /\ "navigationStarted" \notin EventNames(emitted')
             /\ liveWatches' = liveWatches
             /\ watchId' = watchId]_vars

(* C8 witness: a startNavigation call has just failed *)
C8_Witness ==
    /\ lastOp = "startNavigation.resume" /\ lastProvider = "threw"
    /\ lastResult = "threw" /\ ~isNavigating /\ liveWatches = {}

(* C9: stopNavigation on an Active session cancels the position             *)
(* subscription, leaves isNavigating false, destination, currentRoute and   *)
(* currentPosition null, isRerouting false and the stats reset, and emits   *)
(* exactly one 'navigationStopped'.                                         *)
C9_StopClearsSession ==
    [][(lastOp' = "stopNavigation" /\ isNavigating /\ currentRoute /= Null)
          => /\ watchId' = NoWatch /\ watchId \notin liveWatches'
             /\ ~isNavigating'
             /\ destination' = Null /\ currentRoute' = Null /\ currentPosition' = Null
             /\ ~isRerouting'
             /\ navigationStats' = InitStats
             /\ emitted' = <<Event("navigationStopped", Null)>>]_vars

(* C10: once a newer sample has been accepted by handlePositionUpdate, no   *)
(* 'positionUpdated' event for an older sample is produced: every           *)
(* 'positionUpdated' carries the most recently accepted sample.             *)
C10_NoReplayOfOlderSample ==
    \A i \in 1..Len(emitted) :
        emitted[i].event = "positionUpdated" => emitted[i].data.position = lastAccepted

(* C11: a position-source error is announced as a 'positionError' event and *)
(* leaves isNavigating, currentRoute, destination and currentPosition (the  *)
(* last known position) as they were.                                       *)
C11_PositionErrorKeepsSession ==
    [][lastOp' = "positionError"
          => /\ EventNames(emitted') = {"positionError"}
             /\ isNavigating' = isNavigating
             /\ currentRoute' = currentRoute
             /\ destination' = destination
             /\ currentPosition' = currentPosition]_vars

(* C11 witness: the position source failed during an active session that    *)
(* has a route and a last known position away from where it started.        *)
C11_Witness ==
    /\ lastOp = "positionError"
    /\ EventNames(emitted) = {"positionError"}
    /\ isNavigating /\ currentRoute /= Null
    /\ currentPosition \in Samples \ StartPositions

----------------------------------------------------------------------------
(* RoutingService: route scoring.  Penalties are kept in hundredths, the    *)
(* unit in which weight * (1 - minDistance / 100) is a whole number for a    *)
(* distance in whole metres.                                                *)

HazardBufferMeters == 100        \* HAZARD_BUFFER_METERS
ScoreTolerance == 5              \* scores closer than this count as similar
RiskAreaWeight == 50             \* SAFETY_WEIGHTS.riskArea
DefaultWeight == 5               \* SAFETY_WEIGHTS[hazard.type] || 5

SafetyWeights ==
    [riskArea |-> RiskAreaWeight, accident |-> 30, construction |-> 20,
     pothole |-> 10, portal |-> 5]

SafetyWeight(type) ==
    IF type \in DOMAIN SafetyWeights THEN SafetyWeights[type] ELSE DefaultWeight

PointGeometry(p) == [type |-> "Point", coordinates |-> p]

(* coordinates[0] of a Polygon is its outer ring, closed by its first vertex *)
PolygonGeometry(ring) == [type |-> "Polygon", coordinates |-> <<ring>>]

Hazard(type, geometry) == [type |-> type, geometry |-> geometry]

(* Distance in whole metres from the point to the segment: to the nearer    *)
(* end when the projection falls outside the segment, else to the line.     *)
pointToLineDistance(point, lineStart, lineEnd) ==
    LET A == point.x - lineStart.x
        B == point.y - lineStart.y
        C == lineEnd.x - lineStart.x
        D == lineEnd.y - lineStart.y
        dot == A * C + B * D
        lenSq == C * C + D * D
    IN  IF lenSq = 0 THEN haversineDistance(point, lineStart)
        ELSE IF dot <= 0 THEN haversineDistance(point, lineStart)
        ELSE IF dot >= lenSq THEN haversineDistance(point, lineEnd)
        ELSE Abs(A * D - B * C) \div haversineDistance(lineStart, lineEnd)

(* Edge j -> i of the ray-casting test, with the division multiplied out *)
CrossesRay(point, pi, pj) ==
    /\ (pi.y > point.y) /= (pj.y > point.y)
    /\ IF pj.y > pi.y
       THEN (point.x - pi.x) * (pj.y - pi.y) < (pj.x - pi.x) * (point.y - pi.y)
       ELSE (point.x - pi.x) * (pj.y - pi.y) > (pj.x - pi.x) * (point.y - pi.y)

pointInPolygon(point, polygon) ==
    LET n == Len(polygon)
        crossings == {i \in 1..n :
                         CrossesRay(point, polygon[i], polygon[IF i = 1 THEN n ELSE i - 1])}
    IN  Cardinality(crossings) % 2 = 1

orientation(p, q, r) ==
    LET val == (q.x - p.x) * (r.y - q.y) - (q.y - p.y) * (r.x - q.x)
    IN  IF val = 0 THEN 0 ELSE IF val > 0 THEN 1 ELSE 2

Min(a, b) == IF a <= b THEN a ELSE b

onSegment(p, q, r) ==
    /\ q.x <= Max(p.x, r.x) /\ q.x >= Min(p.x, r.x)
    /\ q.y <= Max(p.y, r.y) /\ q.y >= Min(p.y, r.y)

lineSegmentsIntersect(p1, q1, p2, q2) ==
    LET o1 == orientation(p1, q1, p2)
        o2 == orientation(p1, q1, q2)
        o3 == orientation(p2, q2, p1)
        o4 == orientation(p2, q2, q1)
    IN  \/ o1 /= o2 /\ o3 /= o4
        \/ o1 = 0 /\ onSegment(p1, p2, q1)
        \/ o2 = 0 /\ onSegment(p1, q2, q1)
        \/ o3 = 0 /\ onSegment(p2, p1, q2)
        \/ o4 = 0 /\ onSegment(p2, q1, q2)

routeIntersectsNothing(segmentStart, segmentEnd, polygon) == FALSE

routeIntersectsPolygon(segmentStart, segmentEnd, polygon) ==
    \/ pointInPolygon(segmentStart, polygon)
    \/ pointInPolygon(segmentEnd, polygon)
    \/ \E i \in 1..Len(polygon) :
          lineSegmentsIntersect(segmentStart, segmentEnd,
                                polygon[i], polygon[(i % Len(polygon)) + 1])

(* Infinity for a route without a segment: beyond every buffer *)
getMinDistanceToRoute(point, routeCoords) ==
    IF Len(routeCoords) < 2 THEN HazardBufferMeters + 1
    ELSE LET d(i) == pointToLineDistance(point, routeCoords[i], routeCoords[i + 1])
         IN  d(CHOOSE i \in 1..(Len(routeCoords) - 1) :
                   \A j \in 1..(Len(routeCoords) - 1) : d(i) <= d(j))

(* hazard.geometry.coordinates[0].map(...) of a Polygon without a ring throws *)
ScoringThrows(hazards) ==
    \E i \in 1..Len(hazards) :
        /\ hazards[i].type = "riskArea"
        /\ hazards[i].geometry.type = "Polygon"
        /\ hazards[i].geometry.coordinates = <<>>

(* Variant without the proximity multiplier: the full weight in the buffer *)
HazardPenaltyFlat(routeCoords, hazard) ==
    IF hazard.geometry.type = "Point"
           /\ getMinDistanceToRoute(hazard.geometry.coordinates, routeCoords)
                  <= HazardBufferMeters
    THEN SafetyWeight(hazard.type) * HazardBufferMeters
    ELSE 0

(* The penalty one hazard adds to a route, in hundredths *)
HazardPenalty(routeCoords, hazard) ==
    IF hazard.type = "riskArea" /\ hazard.geometry.type = "Polygon"
    THEN LET polygon == hazard.geometry.coordinates[1]
             hit == {i \in 1..(Len(routeCoords) - 1) :
                        routeIntersectsPolygon(routeCoords[i], routeCoords[i + 1], polygon)}
         IN  Cardinality(hit) * RiskAreaWeight * HazardBufferMeters
    ELSE IF hazard.geometry.type = "Point"
    THEN LET minDistance == getMinDistanceToRoute(hazard.geometry.coordinates, routeCoords)
         IN  IF minDistance <= HazardBufferMeters
             THEN SafetyWeight(hazard.type) * (HazardBufferMeters - minDistance)
             ELSE 0
    ELSE 0

RECURSIVE SumPenalties(_, _, _)
SumPenalties(routeCoords, hazards, i) ==
    IF i > Len(hazards) THEN 0
    ELSE HazardPenalty(routeCoords, hazards[i]) + SumPenalties(routeCoords, hazards, i + 1)

(* The sort comparator of getBestRoute: negative when a goes first *)
compareByDistance(a, b) == a.distance - b.distance

compareRoutes(a, b) ==
    IF Abs(a.safetyScore - b.safetyScore) < ScoreTolerance * HazardBufferMeters
    THEN a.distance - b.distance
    ELSE a.safetyScore - b.safetyScore

Range(seq) == {seq[i] : i \in 1..Len(seq)}

ArrayOrders(seq) ==
    {p \in [1..Len(seq) -> Range(seq)] : \A i, j \in 1..Len(seq) : i /= j => p[i] /= p[j]}

(* The comparator's result for every two routes of the array *)
ComparisonTable(objects, refs) ==
    [a \in Range(refs) |-> [b \in Range(refs) |-> compareRoutes(objects[a], objects[b])]]

(* Array.prototype.sort requires a consistent comparator: one that orders   *)
(* the elements in classes.  For any other comparator the resulting order   *)
(* is implementation-defined.                                               *)
ConsistentComparator(cmp) ==
    \A a \in DOMAIN cmp, b \in DOMAIN cmp, c \in DOMAIN cmp :
        /\ (cmp[a][b] < 0 /\ cmp[b][c] < 0) => cmp[a][c] < 0
        /\ (cmp[a][b] = 0 /\ cmp[b][c] = 0) => cmp[a][c] = 0
        /\ (cmp[a][b] = 0 /\ cmp[b][c] < 0) => cmp[a][c] < 0
        /\ (cmp[a][b] < 0 /\ cmp[b][c] = 0) => cmp[a][c] < 0

(* The orders routes.sort(...) may leave the array in: the stable sorted    *)
(* order under a consistent comparator, any order otherwise.                *)
SortOutcomes(objects, refs) ==
    LET cmp == ComparisonTable(objects, refs)
        at == [r \in Range(refs) |-> CHOOSE i \in 1..Len(refs) : refs[i] = r]
    IN  IF ConsistentComparator(cmp)
        THEN {p \in ArrayOrders(refs) :
                 \A i \in 1..Len(p), j \in 1..Len(p) :
                     i < j => \/ cmp[p[i]][p[j]] < 0
                              \/ cmp[p[i]][p[j]] = 0 /\ at[p[i]] < at[p[j]]}
        ELSE ArrayOrders(refs)

----------------------------------------------------------------------------
(* RoutingService: requests, provider answers and hazard lists explored *)

(* The (start, end) pair routes are requested for *)
RoutePairs == {<<Pos(0, 0), Pos(2000, 0)>>}

PathLength(coords) == RemainingFrom(coords, 1)

(* A provider feature: a road from start to end through a point dy metres   *)
(* beside the midpoint, with the length the provider reports for it.        *)
Feature(start, end, dy) ==
    LET mid == interpolatePoint(start, end, 1, 2)
        coords == <<start, Pos(mid.x, mid.y + dy), end>>
    IN  [coordinates |-> coords, distance |-> PathLength(coords)]

(* A feature whose geometry holds a single coordinate *)
PointFeature(start) == [coordinates |-> <<start>>, distance |-> 0]

(* The direct road, a detour to the north and one to the south *)
Detours == {0, 400, -300}

(* The bodies with features: up to three different roads in any order, or   *)
(* the single-coordinate feature.                                           *)
FeatureLists(start, end) ==
    LET road == [dy \in Detours |-> Feature(start, end, dy)]
        orders == UNION {{p \in [1..n -> Detours] :
                            \A i, j \in 1..n : i /= j => p[i] /= p[j]} : n \in 1..3}
    IN  {[i \in 1..Len(p) |-> road[p[i]]] : p \in orders} \cup {<<PointFeature(start)>>}

(* How one provider request may settle: fetch rejects, the status is not    *)
(* OK, the body does not parse, or a body with zero or more features.       *)
ProviderFailures == {"networkError", "httpError", "malformedBody"}

ProviderAnswers(start, end) == {<<>>} \cup FeatureLists(start, end)

(* The square of side 200 m around a point, as a closed ring *)
Square(c) ==
    <<Pos(c.x - 100, c.y - 100), Pos(c.x + 100, c.y - 100), Pos(c.x + 100, c.y + 100),
      Pos(c.x - 100, c.y + 100), Pos(c.x - 100, c.y - 100)>>

(* Hazard lists passed to getBestRoute: none; a risk area on the direct     *)
(* road; one on the northern detour; a pothole 20 m from the direct road    *)
(* with a portal 20 m from the southern detour; a risk area whose Polygon   *)
(* has no ring.                                                             *)
HazardLists ==
    {<<>>,
     <<Hazard("riskArea", PolygonGeometry(Square(Pos(1000, 0))))>>,
     <<Hazard("riskArea", PolygonGeometry(Square(Pos(1000, 400))))>>,
     <<Hazard("pothole", PointGeometry(Pos(500, 20))),
       Hazard("portal", PointGeometry(Pos(1000, -320)))>>,
     <<Hazard("riskArea", [type |-> "Polygon", coordinates |-> <<>>])>>}

(* The routes the explored requests can produce *)
ExploredRoutes ==
    UNION {{Feature(pair[1], pair[2], dy).coordinates : dy \in Detours}
               \cup {PointFeature(pair[1]).coordinates,
                     createFallbackRoute(pair[1], pair[2]).coordinates} : pair \in RoutePairs}

(* The penalties of the explored routes under the explored hazard lists,    *)
(* computed once                                                            *)
SafetyScores ==
    [coords \in ExploredRoutes |->
        [hazards \in {h \in HazardLists : ~ScoringThrows(h)} |->
            SumPenalties(coords, hazards, 1)]]

calculateSafetyScore(route, hazards) ==
    IF route.coordinates \in DOMAIN SafetyScores
           /\ hazards \in DOMAIN SafetyScores[route.coordinates]
    THEN SafetyScores[route.coordinates][hazards]
    ELSE SumPenalties(route.coordinates, hazards, 1)

----------------------------------------------------------------------------
(* RoutingService as a state machine.  A route is an object: the cache, the *)
(* arrays handed to callers and the routes returned refer to objects of     *)
(* routeObjects, so that a write through one reference shows through all.   *)
(* routeObjects keeps the objects the service can still reach (those of the *)
(* cache) and those the last step handed out.                               *)

RouteIds == <<"route-0", "route-1", "route-2">>

(* parseORSResponse on a body with these features *)
parseORSFeatures(features) ==
    [i \in 1..Len(features) |->
        [id |-> RouteIds[i], coordinates |-> features[i].coordinates,
         distance |-> features[i].distance, safetyScore |-> 0]]

fallbackRouteObject(start, end) == createFallbackRoute(start, end) @@ [safetyScore |-> 0]

(* `${start.lat},${start.lng}-${end.lat},${end.lng}` *)
CacheKey(start, end) == <<start, end>>

cacheSet(cache, key, refs) ==
    [k \in DOMAIN cache \cup {key} |-> IF k = key THEN refs ELSE cache[k]]

Request(start, end) == [start |-> start, end |-> end]

(* References for n new objects: the smallest ones that name no object *)
RECURSIVE FreshRefs(_, _)
FreshRefs(used, n) ==
    IF n = 0 THEN <<>>
    ELSE LET r == CHOOSE c \in 1..(Cardinality(used) + 1) :
                      c \notin used /\ \A m \in 1..(c - 1) : m \in used
         IN  <<r>> \o FreshRefs(used \cup {r}, n - 1)

(* The objects with the new routes stored under the new references *)
allocate(objects, refs, routes) ==
    [r \in DOMAIN objects \cup Range(refs) |->
        IF r \in DOMAIN objects THEN objects[r]
        ELSE routes[CHOOSE i \in 1..Len(refs) : refs[i] = r]]

(* route.safetyScore = calculateSafetyScore(route, hazards), for each route *)
(* of the array                                                             *)
scoreRoutes(objects, refs, hazards) ==
    [r \in DOMAIN objects |->
        IF r \in Range(refs)
        THEN [objects[r] EXCEPT !.safetyScore = calculateSafetyScore(objects[r], hazards)]
        ELSE objects[r]]

Reachable(cache, step) ==
    UNION {Range(cache[k]) : k \in DOMAIN cache} \cup Range(step.options) \cup Range(step.route)

(* One RoutingService step: the objects, the cache and the account of the   *)
(* step it ends with.                                                       *)
RoutingCommit(objects, cache, step) ==
    LET live == Reachable(cache, step)
    IN  /\ routeObjects' = [r \in live |-> objects[r]]
        /\ cachedRoutes' = cache
        /\ routingStep' = step
        /\ selectedRoutes' = (selectedRoutes \cup Range(step.route)) \cap live

(* getBestRoute from the point where getRouteOptions has resolved to the    *)
(* array `refs` (which is the array stored under `key` when inCache): score *)
(* every route, sort the array in place, return its first element (none,    *)
(* for an empty array).  The hazard array is read here, when the scoring    *)
(* runs.                                                                    *)
getBestRouteTail(op, key, refs, inCache, hazards, objects, cache, contacted, outcome) ==
    IF ScoringThrows(hazards)
    THEN RoutingCommit(objects, cache,
                       RoutingStep(op, key, contacted, outcome, refs, hazards, "threw", <<>>))
    ELSE LET scored == scoreRoutes(objects, refs, hazards)
         IN  \E sorted \in SortOutcomes(scored, refs) :
                 RoutingCommit(scored,
                               IF inCache THEN cacheSet(cache, key, sorted) ELSE cache,
                               RoutingStep(op, key, contacted, outcome, refs, hazards,
                                           "returned",
                                           IF sorted = <<>> THEN <<>> ELSE <<sorted[1]>>))

noteResolved(key, how) ==
    [k \in DOMAIN resolvedKeys \cup {key} |->
        IF k = key /\ (how = "answered" \/ k \notin DOMAIN resolvedKeys) THEN how
        ELSE resolvedKeys[k]]

(* getBestRoute(start, end, hazards) finds the pair in the cache *)
GetBestRouteCached ==
    \E pair \in RoutePairs, hazards \in HazardLists :
        LET key == CacheKey(pair[1], pair[2])
        IN  /\ key \in DOMAIN cachedRoutes
            /\ getBestRouteTail("getBestRoute", key, cachedRoutes[key], TRUE, hazards,
                                routeObjects, cachedRoutes, FALSE, "cached")
            /\ resolvedKeys' = noteResolved(key, "answered")
            /\ UNCHANGED <<fetching, controllerVars, hazardVars>>

(* getBestRoute(start, end, hazards) misses the cache and awaits fetch *)
GetBestRouteFetches ==
    \E pair \in RoutePairs :
        LET key == CacheKey(pair[1], pair[2])
        IN  /\ key \notin DOMAIN cachedRoutes
            /\ BagCardinality(fetching) < MaxFetching
            /\ fetching' = fetching (+) SetToBag({Request(pair[1], pair[2])})
            /\ RoutingCommit(routeObjects, cachedRoutes,
                             RoutingStep("getBestRoute", key, TRUE, "none", <<>>, <<>>,
                                         "pending", <<>>))
            /\ UNCHANGED <<resolvedKeys, controllerVars, hazardVars>>

(* The provider request fails: the catch block answers with a fallback      *)
(* route and stores nothing.                                                *)
ProviderFails ==
    \E req \in BagToSet(fetching), failure \in ProviderFailures, hazards \in HazardLists :
        LET key == CacheKey(req.start, req.end)
            refs == FreshRefs(DOMAIN routeObjects, 1)
        IN  /\ Cardinality(DOMAIN routeObjects) < MaxRouteObjects
            /\ fetching' = fetching (-) SetToBag({req})
            /\ getBestRouteTail("getBestRoute.resume", key, refs, FALSE, hazards,
                                allocate(routeObjects, refs,
                                         <<fallbackRouteObject(req.start, req.end)>>),
                                cachedRoutes, TRUE, failure)
            /\ resolvedKeys' = noteResolved(key, "failed")
            /\ UNCHANGED <<controllerVars, hazardVars>>

ensuredRoutesUnchecked(routes, start, end) == routes

(* ensuredRoutes: the parsed routes, or one fallback route when there are none *)
ensuredRoutes(routes, start, end) ==
    IF Len(routes) > 0 THEN routes ELSE <<fallbackRouteObject(start, end)>>

(* The provider answers with a body that parses: the routes are stored      *)
(* under the key and handed on.                                             *)
ProviderAnswersRequest ==
    \E req \in BagToSet(fetching) :
        \E features \in ProviderAnswers(req.start, req.end), hazards \in HazardLists :
            LET key == CacheKey(req.start, req.end)
                routes == ensuredRoutes(parseORSFeatures(features), req.start, req.end)
                refs == FreshRefs(DOMAIN routeObjects, Len(routes))
            IN  /\ Cardinality(DOMAIN routeObjects) + Len(routes) <= MaxRouteObjects
                /\ fetching' = fetching (-) SetToBag({req})
                /\ getBestRouteTail("getBestRoute.resume", key, refs, TRUE, hazards,
                                    allocate(routeObjects, refs, routes),
                                    cacheSet(cachedRoutes, key, refs), TRUE,
                                    IF features = <<>> THEN "empty" ELSE "features")
                /\ resolvedKeys' = noteResolved(key, "answered")
                /\ UNCHANGED <<controllerVars, hazardVars>>

clearCacheKeepsEntries(cache) == cache

clearCache(cache) == <<>>

ClearCache ==
    /\ RoutingCommit(routeObjects, clearCache(cachedRoutes),
                     RoutingStep("clearCache", <<>>, FALSE, "none", <<>>, <<>>, "returned", <<>>))
    /\ resolvedKeys' = <<>>
    /\ UNCHANGED <<fetching, controllerVars, hazardVars>>

RoutingNext ==
    \/ GetBestRouteCached
    \/ GetBestRouteFetches
    \/ ProviderFails
    \/ ProviderAnswersRequest
    \/ ClearCache

RoutingSpec == Init /\ [][RoutingNext]_vars

----------------------------------------------------------------------------
(* Properties of RoutingService *)

(* The last step ran getBestRoute past its `await getRouteOptions(...)` *)
OptionsResolved ==
    /\ routingStep.op \in {"getBestRoute", "getBestRoute.resume"}
    /\ routingStep.result /= "pending"

IsFallback(ref) == routeObjects[ref].id = "fallback-route"

(* C12: getRouteOptions resolves, for every provider outcome, to a list     *)
(* with at least one route; after a provider failure or an answer without   *)
(* features the list is exactly one fallback route.                         *)
C12_RouteOptionsNeverFail ==
    OptionsResolved =>
        /\ Len(routingStep.options) >= 1
        /\ routingStep.outcome \in ProviderFailures \cup {"empty"}
              => Len(routingStep.options) = 1 /\ IsFallback(routingStep.options[1])

(* C12 witness: the provider answered with no features and the call got     *)
(* the single fallback route.                                               *)
C12_Witness ==
    /\ OptionsResolved
    /\ routingStep.outcome = "empty"
    /\ Len(routingStep.options) = 1 /\ IsFallback(routingStep.options[1])

(* C13: for every provider response and hazard list, the route getBestRoute *)
(* returns has at least 2 coordinates.                                      *)
C13_ReturnedRouteHasTwoCoordinates ==
    routingStep.route /= <<>>
        => Len(routeObjects[routingStep.route[1]].coordinates) >= 2

(* C14: once getRouteOptions has resolved for a pair, every later call with *)
(* the same pair and no clearCache in between gets the cached array without *)
(* contacting the provider, whatever the outcome of the first call was; a   *)
(* call after clearCache contacts the provider again.                       *)
C14_CachedPerPair ==
    [][routingStep'.op = "getBestRoute"
          => /\ routingStep'.key \in DOMAIN resolvedKeys
                   => /\ ~routingStep'.contacted
                      /\ routingStep'.key \in DOMAIN cachedRoutes
                      /\ routingStep'.options = cachedRoutes[routingStep'.key]
             /\ routingStep'.key \notin DOMAIN resolvedKeys
                   => routingStep'.contacted]_vars

Score(ref) == routeObjects[ref].safetyScore

(* c is ahead of r in the tolerance ordering: safer by 5 or more, or within *)
(* 5 and strictly shorter (scores are in hundredths)                        *)
Preferred(c, r) ==
    \/ Score(c) + ScoreTolerance * HazardBufferMeters <= Score(r)
    \/ /\ Abs(Score(c) - Score(r)) < ScoreTolerance * HazardBufferMeters
       /\ routeObjects[c].distance < routeObjects[r].distance

Candidates == Range(routingStep.options)

(* C15 as stated: the route getBestRoute returns is first in the tolerance  *)
(* ordering of the candidates: no other candidate is safer by 5 or more,    *)
(* and none within 5 of its score is strictly shorter.                      *)
C15_FirstInToleranceOrdering ==
    routingStep.route /= <<>>
        => \A c \in Candidates \ {routingStep.route[1]} : ~Preferred(c, routingStep.route[1])

(* The tolerance ordering orders the candidates in classes *)
ToleranceOrderingConsistent ==
    LET similar(a, b) == ~Preferred(a, b) /\ ~Preferred(b, a)
    IN  \A a \in Candidates, b \in Candidates, c \in Candidates :
            /\ (Preferred(a, b) /\ Preferred(b, c)) => Preferred(a, c)
            /\ (similar(a, b) /\ similar(b, c)) => similar(a, c)

(* C15 as amended: when the tolerance comparison is consistent on the       *)
(* candidates (as it is for one or two candidates), the route returned is   *)
(* first in the tolerance ordering.                                         *)
C15_FirstWhenOrderingConsistent ==
    (routingStep.route /= <<>> /\ ToleranceOrderingConsistent)
        => \A c \in Candidates \ {routingStep.route[1]} : ~Preferred(c, routingStep.route[1])

(* C15 witness: three candidates ordered consistently, and the route        *)
(* returned is safer than the one the provider listed first.                *)
C15_Witness ==
    /\ routingStep.route /= <<>>
    /\ Len(routingStep.options) = 3
    /\ ToleranceOrderingConsistent
    /\ Preferred(routingStep.route[1], routingStep.options[1])
    /\ Score(routingStep.route[1]) < Score(routingStep.options[1])

(* A vertex of the route lies inside a rectangular risk area of the list *)
CrossesRiskArea(ref, hazards) ==
    \E i \in 1..Len(hazards) :
        /\ hazards[i].type = "riskArea"
        /\ hazards[i].geometry.type = "Polygon"
        /\ hazards[i].geometry.coordinates /= <<>>
        /\ LET ring == hazards[i].geometry.coordinates[1]
               coords == routeObjects[ref].coordinates
           IN  \E v \in 1..Len(coords) :
                   /\ \E p \in Range(ring), q \in Range(ring) :
                         p.x < coords[v].x /\ coords[v].x < q.x
                   /\ \E p \in Range(ring), q \in Range(ring) :
                         p.y < coords[v].y /\ coords[v].y < q.y

(* C16: of two candidates of similar length, one crossing a risk area       *)
(* (which costs it at least 50) and one free of hazards, getBestRoute       *)
(* returns the hazard-free one, whichever is shorter and whichever the      *)
(* provider listed first.                                                   *)
C16_HazardFreeBeatsRiskArea ==
    (routingStep.route /= <<>> /\ Len(routingStep.options) = 2)
        => \A a \in Candidates, b \in Candidates :
               (a /= b /\ CrossesRiskArea(a, routingStep.hazards) /\ Score(b) = 0)
                   => /\ Score(a) >= RiskAreaWeight * HazardBufferMeters
                      /\ routingStep.route = <<b>>

(* C16 witness: the candidate listed first crosses the risk area and is the *)
(* shorter one, and the other one was returned.                             *)
C16_Witness ==
    /\ routingStep.route /= <<>> /\ Len(routingStep.options) = 2
    /\ CrossesRiskArea(routingStep.options[1], routingStep.hazards)
    /\ routeObjects[routingStep.options[1]].distance
           < routeObjects[routingStep.options[2]].distance
    /\ Score(routingStep.options[2]) = 0
    /\ routingStep.route = <<routingStep.options[2]>>

(* C17: a route getBestRoute has returned is not modified afterwards: its   *)
(* safetyScore and coordinates stay as they are through every later step,   *)
(* also a getBestRoute call for the same pair with other hazards.           *)
C17_SelectedRouteImmutable ==
    [][\A r \in selectedRoutes \cap DOMAIN routeObjects' :
           /\ routeObjects'[r].safetyScore = routeObjects[r].safetyScore
           /\ routeObjects'[r].coordinates = routeObjects[r].coordinates]_vars

----------------------------------------------------------------------------
(* HazardService (src/Landing.jsx): the hazard store, its listeners and    *)
(* the timers of startSimulation().                                         *)

MaxListeners == 2      \* registered callbacks at a time
MaxAdded == 1          \* hazards stored by addHazard in a run
MaxMinutes == 5        \* minutes of a run

DuplicateRadius == 100         \* metres
RetentionMinutes == 5
QueryRadius == 1000            \* metres
MinSeverity == 1
MaxSeverity == 3

LngLimit == 180 * MetersPerDegreeLng
LatLimit == 90 * MetersPerDegreeLat

clampUpperOnly(n, min, max) == Min(max, n)

clamp(n, min, max) == Max(min, Min(max, n))

Threw == [threw |-> "TypeError"]

ReportedDescription(type) ==
    CASE type = "accident" -> "Reported accident"
      [] type = "construction" -> "Reported construction"
      [] type = "pothole" -> "Reported pothole"
      [] type = "portal" -> "Reported portal"
      [] type = "riskArea" -> "Reported riskArea"

(* !hazard.type || !hazard.geometry || !hazard.properties *)
missingField(draft) == ~({"type", "geometry", "properties"} \subseteq DOMAIN draft)

invalidCoordinatesLngOnly(c) ==
    isNaN(c.x) \/ isNaN(c.y) \/ c.x < 0 - LngLimit \/ c.x > LngLimit

(* const [lng, lat] = coordinates; isNaN(lng) || isNaN(lat) || out of range *)
invalidCoordinates(c) ==
    \/ isNaN(c.x) \/ isNaN(c.y)
    \/ c.x < 0 - LngLimit \/ c.x > LngLimit
    \/ c.y < 0 - LatLimit \/ c.y > LatLimit

(* haversineDistance(a, b) < meters; points a whole radius apart along an   *)
(* axis are settled without squaring the difference                         *)
CloserThan(a, b, meters) ==
    /\ Abs(a.x - b.x) < meters /\ Abs(a.y - b.y) < meters
    /\ haversineDistance(a, b) < meters

isDuplicateNever(store, draft) == FALSE

(* this.hazards.some(...): a stored Point of the same type under 100 m away *)
isDuplicate(store, draft) ==
    \E i \in 1..Len(store) :
        /\ store[i].geometry.type = "Point" /\ draft.geometry.type = "Point"
        /\ CloserThan(store[i].geometry.coordinates, draft.geometry.coordinates,
                      DuplicateRadius)
        /\ store[i].type = draft.type

(* hazard.properties.severity || 1 *)
SeverityOrDefault(properties) ==
    IF "severity" \in DOMAIN properties /\ properties.severity /= 0
    THEN properties.severity ELSE MinSeverity

(* { id: `${type}-${Date.now()}-${random}`, ...hazard, properties: {...} }:  *)
(* the fields of the draft are spread over the generated id, so that an id  *)
(* field of the draft replaces it                                           *)
newHazard(draft, serial, clock) ==
    StoredHazard(IF "id" \in DOMAIN draft THEN draft.id ELSE StampedId(draft.type, serial),
                 draft.type, draft.geometry,
                 Properties(clamp(SeverityOrDefault(draft.properties), MinSeverity, MaxSeverity),
                            IF "description" \in DOMAIN draft.properties
                            THEN draft.properties.description
                            ELSE ReportedDescription(draft.type),
                            clock))

(* A notifyListeners call: the event, the hazard and the callbacks called *)
Notification(event, data, called) == [event |-> event, id |-> data.id, called |-> called]

hazardNotifyUnguarded(ls, event, data) ==
    Notification(event, data, SubSeq(ls, 1, FirstThrower(ls)))

(* notifyListeners: every callback is called, in array order; what a       *)
(* callback throws is caught and logged                                     *)
hazardNotifyListeners(ls, event, data) == Notification(event, data, ls)

(* What a call leaves: the value returned, the array and the notifications *)
HazardOutcome(result, store, notifications) ==
    [result |-> result, store |-> store, notifications |-> notifications]

addHazard(store, ls, draft, serial, clock) ==
    IF missingField(draft) THEN HazardOutcome(Null, store, <<>>)
    ELSE IF draft.geometry.type = "Point" /\ "coordinates" \notin DOMAIN draft.geometry
         THEN HazardOutcome(Threw, store, <<>>)
    ELSE IF draft.geometry.type = "Point" /\ invalidCoordinates(draft.geometry.coordinates)
         THEN HazardOutcome(Null, store, <<>>)
    ELSE IF isDuplicate(store, draft) THEN HazardOutcome(Null, store, <<>>)
    ELSE LET created == newHazard(draft, serial + 1, clock)
         IN  HazardOutcome(created, Append(store, created),
                           <<hazardNotifyListeners(ls, "hazardAdded", created)>>)

IndexOfId(store, id) ==
    IF \E i \in 1..Len(store) : store[i].id = id
    THEN CHOOSE i \in 1..Len(store) :
             store[i].id = id /\ \A j \in 1..(i - 1) : store[j].id /= id
    ELSE 0

Without(seq, index) == [i \in 1..(Len(seq) - 1) |-> IF i < index THEN seq[i] ELSE seq[i + 1]]

(* removeHazard(hazardId): the first hazard with the id goes, if any *)
removeHazard(store, ls, hazardId) ==
    LET index == IndexOfId(store, hazardId)
    IN  IF index > 0
        THEN HazardOutcome(store[index], Without(store, index),
                           <<hazardNotifyListeners(ls, "hazardRemoved", store[index])>>)
        ELSE HazardOutcome(Null, store, <<>>)

(* getHazardsWithinRadius: Points by their distance, Polygons by any vertex *)
getHazardsWithinRadius(store, userPosition, radiusMeters) ==
    LET within(hazard) ==
            IF hazard.geometry.type = "Point"
            THEN haversineDistance(userPosition, hazard.geometry.coordinates) <= radiusMeters
            ELSE /\ hazard.geometry.type = "Polygon"
                 /\ \E v \in Range(hazard.geometry.coordinates[1]) :
                        haversineDistance(userPosition, v) <= radiusMeters
    IN  SelectSeq(store, within)

(* The sweep of startSimulation: keeps what was updated within the last     *)
(* five minutes and what has an id starting with 'risk-'                    *)
expirySweep(store, clock) ==
    LET kept(hazard) ==
            \/ hazard.properties.updatedAt > clock - RetentionMinutes
            \/ hazard.id.prefix = "risk"
    IN  SelectSeq(store, kept)

(* removeListener: the first entry holding the callback goes, if any *)
removeListener(ls, callback) ==
    IF \E i \in 1..Len(ls) : ls[i] = callback
    THEN Without(ls, CHOOSE i \in 1..Len(ls) :
                         ls[i] = callback /\ \A j \in 1..(i - 1) : ls[j] /= callback)
    ELSE ls

----------------------------------------------------------------------------
(* Inputs of the hazard store *)

Acc1Position == FromDegrees(728777, 190760)

East(p, meters) == Pos(p.x + meters, p.y)

PointDraft(type, position, severity) ==
    [type |-> type, geometry |-> [type |-> "Point", coordinates |-> position],
     properties |-> [severity |-> severity]]

(* Reports next to the mock accident acc-1: 60 m and 100 m east of it *)
ValidPointDrafts ==
    << PointDraft("accident", East(Acc1Position, 60), 2),
       PointDraft("accident", East(Acc1Position, DuplicateRadius), 7),
       PointDraft("pothole", East(Acc1Position, 60), 0) >>

MissingFieldDrafts ==
    << [geometry |-> [type |-> "Point", coordinates |-> East(Acc1Position, 60)],
        properties |-> [severity |-> 1]],
       [type |-> "accident", properties |-> [severity |-> 1]],
       [type |-> "accident",
        geometry |-> [type |-> "Point", coordinates |-> East(Acc1Position, 60)]] >>

OutOfRangeDrafts ==
    << PointDraft("pothole", FromDegrees(1810000, 190760), 1),
       PointDraft("pothole", FromDegrees(728777, -910000), 1) >>

NotANumberDraft == PointDraft("pothole", [x |-> NaN, y |-> Acc1Position.y], 1)

NoCoordinatesDraft ==
    [type |-> "pothole", geometry |-> [type |-> "Point"], properties |-> [severity |-> 1]]

(* The drafts passed to addHazard, as a list: they are not all comparable *)
Drafts ==
    ValidPointDrafts \o MissingFieldDrafts \o OutOfRangeDrafts
        \o <<NotANumberDraft, NoCoordinatesDraft>>

(* What the 45-second timer reports: a random accident, construction or     *)
(* pothole within 0.1 degrees of acc-1, here a pothole 40 m east of it      *)
SimulatedDrafts ==
    { [type |-> "pothole",
       geometry |-> [type |-> "Point", coordinates |-> East(Acc1Position, 40)],
       properties |-> [severity |-> 2, description |-> "Simulated pothole",
                       updatedAt |-> hazardClock]] }

UnknownId == HazardId("unknown", 0)

CreatedIds(store) == {store[i].id : i \in {j \in 1..Len(store) : store[j].id.stamped}}

(* Ids passed to removeHazard: one of the mock data, one never assigned,    *)
(* the ids of the stored hazards addHazard created and the ids of hazards   *)
(* that are gone                                                            *)
RemovableIds ==
    {HazardId("acc", 1), UnknownId} \cup CreatedIds(storedHazards) \cup DOMAIN hazardEvents

QueryPositions == {Acc1Position}

----------------------------------------------------------------------------
(* The hazard store's state machine *)

(* The events of the notifications, appended to the history of their ids *)
RECURSIVE noteEvents(_, _)
noteEvents(events, notifications) ==
    IF notifications = <<>> THEN events
    ELSE LET n == Head(notifications)
             before == IF n.id \in DOMAIN events THEN events[n.id] ELSE <<>>
         IN  noteEvents([id \in DOMAIN events \cup {n.id} |->
                            IF id = n.id THEN Append(before, n.event) ELSE events[id]],
                        Tail(notifications))

HazardCommit(op, arg, outcome, ls) ==
    /\ storedHazards' = outcome.store
    /\ listeners' = ls
    /\ hazardSerial' = IF Len(outcome.store) > Len(storedHazards)
                       THEN hazardSerial + 1 ELSE hazardSerial
    /\ hazardStep' = HazardStep(op, arg, outcome.result, outcome.notifications)
    /\ hazardEvents' = noteEvents(hazardEvents, outcome.notifications)
    /\ UNCHANGED <<simulationStarted, hazardClock, controllerVars, routingVars>>

addHazardCall(draft) ==
    LET outcome == addHazard(storedHazards, listeners, draft, hazardSerial, hazardClock)
    IN  /\ Len(outcome.store) > Len(storedHazards) => hazardSerial < MaxAdded
        /\ HazardCommit("addHazard", draft, outcome, listeners)

AddHazard == \E i \in 1..Len(Drafts) : addHazardCall(Drafts[i])

(* The 45-second timer of startSimulation *)
SimulatedHazard ==
    /\ simulationStarted
    /\ \E draft \in SimulatedDrafts : addHazardCall(draft)

RemoveHazard ==
    \E hazardId \in RemovableIds :
        HazardCommit("removeHazard", hazardId,
                     removeHazard(storedHazards, listeners, hazardId), listeners)

AddListener ==
    \E callback \in Callbacks :
        /\ Len(listeners) < MaxListeners
        /\ HazardCommit("addListener", callback, HazardOutcome(Null, storedHazards, <<>>),
                        Append(listeners, callback))

RemoveListener ==
    \E callback \in Callbacks :
        HazardCommit("removeListener", callback, HazardOutcome(Null, storedHazards, <<>>),
                     removeListener(listeners, callback))

GetHazardsWithinRadius ==
    \E userPosition \in QueryPositions :
        HazardCommit("getHazardsWithinRadius", userPosition,
                     HazardOutcome(getHazardsWithinRadius(storedHazards, userPosition, QueryRadius),
                                   storedHazards, <<>>),
                     listeners)

(* startSimulation(): starts the two timers (once in a run) *)
StartSimulation ==
    /\ ~simulationStarted
    /\ simulationStarted' = TRUE
    /\ hazardStep' = HazardStep("startSimulation", Null, Null, <<>>)
    /\ UNCHANGED <<storedHazards, listeners, hazardClock, hazardSerial, hazardEvents,
                   controllerVars, routingVars>>

(* The 60-second timer of startSimulation.  The calls of a run are made at *)
(* whole retention periods, so that the sweeps in between remove nothing   *)
(* and the next one to act is the sweep a retention period later.          *)
ExpirySweep ==
    /\ simulationStarted
    /\ hazardClock + RetentionMinutes <= MaxMinutes
    /\ hazardClock' = hazardClock + RetentionMinutes
    /\ storedHazards' = expirySweep(storedHazards, hazardClock')
    /\ hazardStep' = HazardStep("expirySweep", Null, Null, <<>>)
    /\ UNCHANGED <<listeners, simulationStarted, hazardSerial, hazardEvents,
                   controllerVars, routingVars>>

HazardNext ==
    \/ AddHazard
    \/ SimulatedHazard
    \/ RemoveHazard
    \/ AddListener
    \/ RemoveListener
    \/ GetHazardsWithinRadius
    \/ StartSimulation
    \/ ExpirySweep

HazardSpec == Init /\ [][HazardNext]_vars

----------------------------------------------------------------------------
(* Properties of the hazard store *)

NoDuplicatePoints(store) ==
    \A i \in 1..Len(store), j \in 1..Len(store) :
        (i < j /\ store[i].geometry.type = "Point" /\ store[j].geometry.type = "Point"
               /\ store[i].type = store[j].type)
            => haversineDistance(store[i].geometry.coordinates,
                                 store[j].geometry.coordinates) >= DuplicateRadius

(* The draft is a complete Point hazard with coordinates in range *)
ValidPoint(draft) ==
    /\ {"type", "geometry", "properties"} \subseteq DOMAIN draft
    /\ draft.geometry.type = "Point"
    /\ "coordinates" \in DOMAIN draft.geometry
    /\ draft.geometry.coordinates.x /= NaN /\ draft.geometry.coordinates.y /= NaN
    /\ Abs(draft.geometry.coordinates.x) <= LngLimit
    /\ Abs(draft.geometry.coordinates.y) <= LatLimit

(* A stored Point hazard of the draft's type lies less than 100 m from it *)
DuplicateOfStored(draft, store) ==
    /\ ValidPoint(draft)
    /\ \E i \in 1..Len(store) :
           /\ store[i].geometry.type = "Point"
           /\ store[i].type = draft.type
           /\ DistSq(store[i].geometry.coordinates, draft.geometry.coordinates)
                  < DuplicateRadius * DuplicateRadius

(* C18: in every state of the hazard store, from the initial hazards on and *)
(* through addHazard, removeHazard and the expiry sweeps, no two Point      *)
(* hazards of the same type lie less than 100 m apart; and an addHazard of  *)
(* a valid Point less than 100 m from a stored hazard of its type is        *)
(* rejected, the stored hazards staying as they are.                        *)
C18_NoDuplicatePoints ==
    /\ NoDuplicatePoints(storedHazards)
    /\ [][/\ NoDuplicatePoints(storedHazards')
          /\ (hazardStep'.op = "addHazard"
                  /\ DuplicateOfStored(hazardStep'.arg, storedHazards))
                 => (hazardStep'.result = Null /\ storedHazards' = storedHazards)]_vars

(* C18 witness: with a hazard of its own stored 100 m from acc-1, the store *)
(* has just rejected an accident reported 60 m from acc-1, which it holds.  *)
C18_Witness ==
    /\ hazardStep.op = "addHazard"
    /\ hazardStep.arg = ValidPointDrafts[1]
    /\ hazardStep.result = Null
    /\ IndexOfId(storedHazards, HazardId("acc", 1)) > 0
    /\ Len(storedHazards) = Len(MOCK_HAZARDS) + 1

(* The draft lacks one of type, geometry and properties *)
MissingRequiredField(draft) ==
    \E field \in {"type", "geometry", "properties"} : field \notin DOMAIN draft

(* A complete Point draft with numbers for coordinates, lng or lat out of   *)
(* range                                                                    *)
OutOfRangePoint(draft) ==
    /\ ~MissingRequiredField(draft)
    /\ draft.geometry.type = "Point"
    /\ "coordinates" \in DOMAIN draft.geometry
    /\ draft.geometry.coordinates.x /= NaN /\ draft.geometry.coordinates.y /= NaN
    /\ \/ Abs(draft.geometry.coordinates.x) > LngLimit
       \/ Abs(draft.geometry.coordinates.y) > LatLimit

CreatedByAddHazard(id) == id.stamped

EventsOf(events, id) == IF id \in DOMAIN events THEN events[id] ELSE <<>>

(* C20: a hazard addHazard stores is announced by one 'hazardAdded' and,    *)
(* when removeHazard removes it, by one 'hazardRemoved' after it, each      *)
(* reaching every registered listener once; from then on it is not stored,  *)
(* no event follows for it and no getHazardsWithinRadius result holds it.   *)
(* removeHazard with an id that is not stored returns null, changes nothing *)
(* and calls no listener.                                                   *)
C20_AddedThenRemoved ==
    [][/\ \A k \in 1..Len(hazardStep'.notifications) :
              hazardStep'.notifications[k].called = listeners
       /\ (hazardStep'.op = "addHazard" /\ Len(storedHazards') > Len(storedHazards))
              => LET id == storedHazards'[Len(storedHazards')].id
                 IN  /\ IndexOfId(storedHazards, id) = 0
                     /\ EventsOf(hazardEvents, id) = <<>>
                     /\ EventsOf(hazardEvents', id) = <<"hazardAdded">>
       /\ (hazardStep'.op = "removeHazard" /\ IndexOfId(storedHazards, hazardStep'.arg) > 0)
              => /\ hazardStep'.result = storedHazards[IndexOfId(storedHazards, hazardStep'.arg)]
                 /\ IndexOfId(storedHazards', hazardStep'.arg) = 0
                 /\ CreatedByAddHazard(hazardStep'.arg)
                        => EventsOf(hazardEvents', hazardStep'.arg)
                               = <<"hazardAdded", "hazardRemoved">>
       /\ (hazardStep'.op = "removeHazard" /\ IndexOfId(storedHazards, hazardStep'.arg) = 0)
              => /\ hazardStep'.result = Null
                 /\ storedHazards' = storedHazards
                 /\ hazardStep'.notifications = <<>>
                 /\ hazardEvents' = hazardEvents
                 /\ listeners' = listeners
       /\ \A id \in DOMAIN hazardEvents :
              hazardEvents[id][Len(hazardEvents[id])] = "hazardRemoved"
                  => /\ hazardEvents'[id] = hazardEvents[id]
                     /\ IndexOfId(storedHazards', id) = 0
                     /\ hazardStep'.op = "getHazardsWithinRadius"
                            => \A k \in 1..Len(hazardStep'.result) :
                                   hazardStep'.result[k].id /= id]_vars

(* C20 witness: two listeners are registered, the first of which throws,    *)
(* and both have just been told of the removal of a hazard that addHazard   *)
(* had stored.                                                              *)
C20_Witness ==
    /\ hazardStep.op = "removeHazard"
    /\ CreatedByAddHazard(hazardStep.arg)
    /\ hazardStep.result /= Null
    /\ listeners = <<"throwingListener", "handleHazardEvent">>
    /\ Len(hazardStep.notifications) = 1
    /\ hazardStep.notifications[1].called = listeners
    /\ hazardEvents[hazardStep.arg] = <<"hazardAdded", "hazardRemoved">>

----------------------------------------------------------------------------
(* The listeners of both services: the call of the controller that always  *)
(* notifies (stopNavigation) and the calls of the hazard store that notify, *)
(* with callbacks registered and removed in between.                        *)

NavListenerCommit(op, ls) ==
    /\ navListeners' = ls
    /\ navDelivered' = <<>>
    /\ emitted' = <<>>
    /\ lastOp' = op
    /\ lastResult' = "returned"
    /\ lastProvider' = "none"
    /\ UNCHANGED <<isNavigating, currentRoute, destination, currentPosition, watchId,
                   navigationStats, lastRerouteTime, isRerouting, liveWatches,
                   pending, now, lifecycle, reachedCount, reroutingAt, lastAccepted>>
    /\ UNCHANGED <<routingVars, hazardVars>>

NavAddListener ==
    \E callback \in Callbacks :
        /\ Len(navListeners) < MaxListeners
        /\ NavListenerCommit("addListener", Append(navListeners, callback))

NavRemoveListener ==
    \E callback \in Callbacks :
        NavListenerCommit("removeListener", removeListener(navListeners, callback))

(* addHazard called with a report the store accepts *)
ReportHazard == addHazardCall(ValidPointDrafts[3])

ListenerNext ==
    \/ NavAddListener
    \/ NavRemoveListener
    \/ StopNavigation
    \/ AddListener
    \/ RemoveListener
    \/ ReportHazard
    \/ RemoveHazard

ListenerSpec == Init /\ [][ListenerNext]_vars

Throws(ls) == \E i \in 1..Len(ls) : ls[i] = "throwingListener"

DeliveredToAll(ls, events, deliveries) ==
    /\ Len(deliveries) = Len(events)
    /\ \A i \in 1..Len(events) :
           deliveries[i].event = events[i].event /\ deliveries[i].called = ls

SessionIs(s) ==
    /\ isNavigating' = s.isNavigating
    /\ currentRoute' = s.currentRoute
    /\ destination' = s.destination
    /\ currentPosition' = s.currentPosition
    /\ watchId' = s.watchId
    /\ navigationStats' = s.navigationStats
    /\ lastRerouteTime' = s.lastRerouteTime
    /\ isRerouting' = s.isRerouting

(* C21: a listener that throws is isolated, in HazardService and in          *)
(* NavigationController: every notifyListeners call of a step calls every    *)
(* registered callback, those after a throwing one included; the call that   *)
(* notified completes (addHazard returns the stored hazard, removeHazard the *)
(* removed one, stopNavigation returns with the session cleared and          *)
(* 'navigationStopped' sent); and the store and the session are left as the  *)
(* same call leaves them with no callback registered.                        *)
C21_ListenerFailuresIsolated ==
    [][/\ DeliveredToAll(navListeners, emitted', navDelivered')
       /\ \A i \in 1..Len(hazardStep'.notifications) :
              hazardStep'.notifications[i].called = listeners
       /\ hazardStep'.op = "addHazard" /\ hazardStep' /= hazardStep
              => LET quiet == addHazard(storedHazards, <<>>, hazardStep'.arg,
                                        hazardSerial, hazardClock)
                 IN  /\ storedHazards' = quiet.store
                     /\ hazardStep'.result = quiet.result
                     /\ Len(hazardStep'.notifications) = Len(quiet.notifications)
       /\ hazardStep'.op = "removeHazard" /\ hazardStep' /= hazardStep
              => LET quiet == removeHazard(storedHazards, <<>>, hazardStep'.arg)
                 IN  /\ storedHazards' = quiet.store
                     /\ hazardStep'.result = quiet.result
                     /\ Len(hazardStep'.notifications) = Len(quiet.notifications)
       /\ (lastOp' = "stopNavigation" /\ controllerVars' /= controllerVars)
              => /\ lastResult' = "returned"
                 /\ SessionIs(stopNavigation(Ctl))
                 /\ ~isNavigating'
                 /\ CountOf(emitted', "navigationStopped") = 1
      ]_vars

(* A throwing callback registered ahead of another one with both services:  *)
(* the controller has sent an event to both, and the store has stored a      *)
(* hazard and notified both                                                  *)
C21_Witness ==
    /\ navListeners = <<"throwingListener", "handleHazardEvent">>
    /\ listeners = <<"throwingListener", "handleHazardEvent">>
    /\ Len(navDelivered) > 0
    /\ navDelivered[1].called = navListeners
    /\ hazardStep.op = "addHazard"
    /\ hazardStep.result /= Null
    /\ Len(hazardStep.notifications) = 1
    /\ hazardStep.notifications[1].called = listeners

----------------------------------------------------------------------------
(* The hazard store given reports of any content: a risk area, a report     *)
(* that carries an id of its own and reports with the severity absent, out  *)
(* of range or in range.  startSimulation's sweep runs as in HazardSpec.    *)

(* A square risk area of a hundred metres east of acc-1 *)
RiskAreaDraft ==
    [type |-> "riskArea",
     geometry |-> [type |-> "Polygon",
                   coordinates |-> << <<East(Acc1Position, 200), East(Acc1Position, 300),
                                        Pos(Acc1Position.x + 300, Acc1Position.y + 100),
                                        Pos(Acc1Position.x + 200, Acc1Position.y + 100),
                                        East(Acc1Position, 200)>> >>],
     properties |-> [severity |-> 2]]

(* A pothole 60 m east of acc-1 reported as an object that has the id acc-1 *)
OwnIdDraft ==
    [id |-> HazardId("acc", 1), type |-> "pothole",
     geometry |-> [type |-> "Point", coordinates |-> East(Acc1Position, 60)],
     properties |-> [severity |-> 2]]

NoSeverityDraft ==
    [type |-> "pothole",
     geometry |-> [type |-> "Point", coordinates |-> East(Acc1Position, 60)],
     properties |-> [description |-> "Deep pothole"]]

Submissions ==
    << RiskAreaDraft, OwnIdDraft, NoSeverityDraft,
       PointDraft("pothole", East(Acc1Position, 60), 0),
       PointDraft("pothole", East(Acc1Position, 60), -1),
       PointDraft("pothole", East(Acc1Position, 60), 2),
       PointDraft("pothole", East(Acc1Position, 60), 7) >>

SubmitHazard == \E i \in 1..Len(Submissions) : addHazardCall(Submissions[i])

SubmissionNext ==
    \/ SubmitHazard
    \/ SimulatedHazard
    \/ StartSimulation
    \/ ExpirySweep

SubmissionSpec == Init /\ [][SubmissionNext]_vars

Ids(store) == [i \in 1..Len(store) |-> store[i].id]

(* The retention window as stated: ten minutes, twice the five of the sweep *)
StatedRetentionMinutes == 2 * RetentionMinutes

ExpiredAsStated(hazard, clock) ==
    /\ hazard.type /= "riskArea"
    /\ hazard.properties.updatedAt < clock - StatedRetentionMinutes

(* C22: a run of the expiry sweep removes exactly the hazards that are not  *)
(* of type riskArea and were updated more than ten minutes ago: a risk area *)
(* stays, whether of the initial set or stored by addHazard, and so does    *)
(* any other hazard updated within the last ten minutes.                    *)
C22_SweepRemovesExactlyExpired ==
    [][hazardStep'.op = "expirySweep" /\ hazardClock' /= hazardClock
           => LET stays(hazard) == ~ExpiredAsStated(hazard, hazardClock')
              IN  Ids(storedHazards') = Ids(SelectSeq(storedHazards, stays))]_vars

UniqueIds(store) ==
    \A i \in 1..Len(store), j \in 1..Len(store) : i /= j => store[i].id /= store[j].id

Stored(step) == step.op = "addHazard" /\ "id" \in DOMAIN step.result

(* C23: the stored hazards have pairwise distinct ids in every state, and   *)
(* the hazard addHazard returns has the id the store generated for it from  *)
(* its type, the time and a random suffix, whatever the draft holds, an id  *)
(* field included.                                                          *)
C23_IdsUniqueAndStoreAssigned ==
    [][/\ UniqueIds(storedHazards)
       /\ UniqueIds(storedHazards')
       /\ (Stored(hazardStep') /\ hazardSerial' /= hazardSerial)
              => hazardStep'.result.id = StampedId(hazardStep'.arg.type, hazardSerial')
      ]_vars

SeverityAsStated(properties) ==
    IF "severity" \notin DOMAIN properties THEN MinSeverity
    ELSE IF properties.severity < MinSeverity THEN MinSeverity
    ELSE IF properties.severity > MaxSeverity THEN MaxSeverity
    ELSE properties.severity

(* C24: a hazard stored through addHazard has a severity from 1 to 3: 1 for *)
(* a draft with no severity or one below 1, 3 for one above 3, and the      *)
(* draft's own otherwise.                                                   *)
C24_SeverityClamped ==
    [][(Stored(hazardStep') /\ hazardSerial' /= hazardSerial)
           => LET stored == storedHazards'[Len(storedHazards')]
              IN  /\ stored = hazardStep'.result
                  /\ stored.properties.severity \in MinSeverity..MaxSeverity
                  /\ stored.properties.severity = SeverityAsStated(hazardStep'.arg.properties)
      ]_vars

(* A report of severity -1 has just been stored with severity 1 *)
C24_Witness ==
    /\ Stored(hazardStep)
    /\ "severity" \in DOMAIN hazardStep.arg.properties
    /\ hazardStep.arg.properties.severity = -1
    /\ storedHazards[Len(storedHazards)].properties.severity = MinSeverity

----------------------------------------------------------------------------
(* filterHazardsByRoute: the stored hazards within the buffer of a route,   *)
(* by priority and distance to the route                                    *)

(* HAZARD_CONFIG[type]?.priority || 0 *)
Priority(type) ==
    CASE type = "riskArea" -> 5
      [] type = "accident" -> 4
      [] type = "construction" -> 3
      [] type = "pothole" -> 2
      [] type = "portal" -> 1
      [] OTHER -> 0

(* A route point lies inside the outer ring, or a vertex of the ring lies   *)
(* within the buffer of the route                                           *)
polygonIntersectsRouteBuffer(polygonGeometry, routeCoords, bufferMeters) ==
    LET polygon == polygonGeometry.coordinates[1]
    IN  \/ \E i \in 1..Len(routeCoords) : pointInPolygon(routeCoords[i], polygon)
        \/ \E v \in 1..Len(polygon) :
               getMinDistanceToRoute(polygon[v], routeCoords) <= bufferMeters

(* { ...hazard, distanceToRoute } *)
WithDistance(hazard, distance) ==
    [id |-> hazard.id, type |-> hazard.type, geometry |-> hazard.geometry,
     properties |-> hazard.properties, distanceToRoute |-> distance]

(* The forEach over this.hazards: what is pushed for the hazards from i on *)
RECURSIVE withinBuffer(_, _, _, _)
withinBuffer(store, routeCoords, bufferMeters, i) ==
    IF i > Len(store) THEN <<>>
    ELSE LET hazard == store[i]
             rest == withinBuffer(store, routeCoords, bufferMeters, i + 1)
         IN  IF hazard.geometry.type = "Point"
             THEN LET minDistance ==
                          getMinDistanceToRoute(hazard.geometry.coordinates, routeCoords)
                  IN  IF minDistance <= bufferMeters
                      THEN <<WithDistance(hazard, minDistance)>> \o rest
                      ELSE rest
             ELSE IF /\ hazard.geometry.type = "Polygon"
                     /\ polygonIntersectsRouteBuffer(hazard.geometry, routeCoords,
                                                     bufferMeters)
                  THEN <<WithDistance(hazard, 0)>> \o rest
                  ELSE rest

compareHazardsByDistance(a, b) == a.distanceToRoute - b.distanceToRoute

(* The comparator of the sort: higher priority first, then closer first *)
compareHazards(a, b) ==
    IF Priority(a.type) /= Priority(b.type)
    THEN Priority(b.type) - Priority(a.type)
    ELSE a.distanceToRoute - b.distanceToRoute

(* Array.prototype.sort with that comparator: the sort is stable, an        *)
(* element goes behind the ones before it that it does not precede          *)
RECURSIVE sortHazards(_)
sortHazards(array) ==
    IF Len(array) <= 1 THEN array
    ELSE LET sorted == sortHazards(SubSeq(array, 1, Len(array) - 1))
             last == array[Len(array)]
             k == Cardinality({i \in 1..Len(sorted) : compareHazards(sorted[i], last) <= 0})
         IN  SubSeq(sorted, 1, k) \o <<last>> \o SubSeq(sorted, k + 1, Len(sorted))

HasRoute(route) ==
    /\ route /= Null
    /\ "coordinates" \in DOMAIN route
    /\ Len(route.coordinates) >= 2

(* Variant that sorts this.hazards itself and returns the ones in the buffer *)
filterHazardsSortingStore(store, route, bufferMeters) ==
    IF ~HasRoute(route) THEN HazardOutcome(<<>>, store, <<>>)
    ELSE LET sorted == sortHazards(withinBuffer(store, route.coordinates, bufferMeters, 1))
             others == SelectSeq(store, LAMBDA h : \A i \in 1..Len(sorted) : sorted[i].id /= h.id)
             inStore == [i \in 1..Len(sorted) |->
                            store[CHOOSE j \in 1..Len(store) : store[j].id = sorted[i].id]]
         IN  HazardOutcome(sorted, inStore \o others, <<>>)

(* filterHazardsByRoute: the copies are pushed to a new array and that      *)
(* array is sorted; this.hazards is only read                               *)
filterHazardsByRoute(store, route, bufferMeters) ==
    IF ~HasRoute(route) THEN HazardOutcome(<<>>, store, <<>>)
    ELSE HazardOutcome(sortHazards(withinBuffer(store, route.coordinates, bufferMeters, 1)),
                       store, <<>>)

(* Where the mock construction site const-1 is, inside the area risk-2 *)
Const1Position == FromDegrees(728795, 190656)

Road(coordinates) == [coordinates |-> coordinates]

(* The routes asked about: from acc-1 to const-1; the same road shifted 100 *)
(* metres east at its start; a route of one point; none                     *)
QueryRoutes ==
    << Road(<<Acc1Position, Const1Position>>),
       Road(<<East(Acc1Position, DuplicateRadius), East(Acc1Position, DuplicateRadius + 1),
              Const1Position>>),
       Road(<<Acc1Position>>),
       Null >>

FilterHazardsByRoute ==
    \E r \in 1..Len(QueryRoutes) :
        HazardCommit("filterHazardsByRoute", QueryRoutes[r],
                     filterHazardsByRoute(storedHazards, QueryRoutes[r], HazardBufferMeters),
                     listeners)

RouteQueryNext ==
    \/ FilterHazardsByRoute
    \/ AddHazard
    \/ RemoveHazard

RouteQuerySpec == Init /\ [][RouteQueryNext]_vars

Filtered(step) == step.op = "filterHazardsByRoute"

(* C25: the list filterHazardsByRoute returns is ordered by priority of the *)
(* type, highest first (riskArea, accident, construction, pothole, portal), *)
(* and by distanceToRoute, smallest first, among hazards of one priority;   *)
(* for a route with fewer than two coordinates it is empty.                 *)
C25_OrderedByPriorityThenDistance ==
    [][Filtered(hazardStep')
           => LET result == hazardStep'.result
              IN  /\ \A i \in 1..Len(result), j \in 1..Len(result) :
                         i < j => \/ Priority(result[i].type) > Priority(result[j].type)
                                  \/ /\ Priority(result[i].type) = Priority(result[j].type)
                                     /\ result[i].distanceToRoute <= result[j].distanceToRoute
                  /\ ~HasRoute(hazardStep'.arg) => result = <<>>
                  /\ Priority("riskArea") > Priority("accident")
                  /\ Priority("accident") > Priority("construction")
                  /\ Priority("construction") > Priority("pothole")
                  /\ Priority("pothole") > Priority("portal")]_vars

(* The call returned a risk area ahead of two accidents, of which the one   *)
(* stored later is the closer to the route and comes first                  *)
C25_Witness ==
    /\ Filtered(hazardStep)
    /\ Len(hazardStep.result) >= 4
    /\ hazardStep.result[1].type = "riskArea"
    /\ hazardStep.result[2].type = "accident"
    /\ hazardStep.result[2].id.stamped
    /\ hazardStep.result[3].id = HazardId("acc", 1)
    /\ hazardStep.result[2].distanceToRoute < hazardStep.result[3].distanceToRoute

Distances(result) == [i \in 1..Len(result) |-> result[i].distanceToRoute]

(* C26: filterHazardsByRoute reads the store and writes nothing: the stored *)
(* hazards and their order are the same after the call, and a second call   *)
(* for the same route, right after the first, returns the same list in the  *)
(* same order.                                                              *)
C26_FilterIsReadOnlyAndIdempotent ==
    [][Filtered(hazardStep')
           => /\ Ids(storedHazards') = Ids(storedHazards)
              /\ hazardEvents' = hazardEvents
              /\ (Filtered(hazardStep) /\ hazardStep'.arg = hazardStep.arg)
                     => /\ Ids(hazardStep'.result) = Ids(hazardStep.result)
                        /\ Distances(hazardStep'.result) = Distances(hazardStep.result)
                  ]_vars

(* The call for the road from acc-1 to const-1 returned the risk area first *)
(* and both points after it, from a store that still has acc-1 first and    *)
(* the mock data in its order                                               *)
C26_Witness ==
    /\ Filtered(hazardStep)
    /\ hazardStep.arg = QueryRoutes[1]
    /\ Len(hazardStep.result) >= 3
    /\ hazardStep.result[1].id = HazardId("risk", 2)
    /\ Ids(storedHazards) = Ids(MOCK_HAZARDS)

----------------------------------------------------------------------------
(* calculateSafetyScore as a function of the distance of a Point hazard to  *)
(* the route: the hazard lies beside the midpoint of the road from (0,0) to *)
(* (2000,0), from on the road to just beyond the buffer, alone or with a    *)
(* risk area the road crosses.                                              *)

PointKinds == {"accident", "construction", "pothole", "portal"}

MaxOffset == HazardBufferMeters + 2

ScoredRoad == [coordinates |-> <<Pos(0, 0), Pos(2000, 0)>>]

OtherHazards == {<<>>, <<Hazard("riskArea", PolygonGeometry(Square(Pos(500, 0))))>>}

CalculateSafetyScore ==
    \E type \in PointKinds, offset \in 0..MaxOffset, others \in OtherHazards :
        LET hazards == <<Hazard(type, PointGeometry(Pos(1000, offset)))>> \o others
        IN  /\ routingStep' = RoutingStep("calculateSafetyScore", <<>>, FALSE, "none", <<>>,
                                          hazards, calculateSafetyScore(ScoredRoad, hazards),
                                          <<>>)
            /\ UNCHANGED <<routeObjects, cachedRoutes, fetching, resolvedKeys, selectedRoutes,
                           controllerVars, hazardVars>>

ScoreNext == CalculateSafetyScore

ScoreSpec == Init /\ [][ScoreNext]_vars

Scored(step) == step.op = "calculateSafetyScore"

(* The weight of a kind as stated, and scores in hundredths as in the model *)
StatedWeight(type) ==
    CASE type = "accident" -> 30
      [] type = "construction" -> 20
      [] type = "pothole" -> 10
      [] type = "portal" -> 5

(* The distance of the scored Point hazard to the road *)
OffsetOf(step) == step.hazards[1].geometry.coordinates.y

(* C27: what a Point hazard adds to the score does not grow with its         *)
(* distance to the route: it is the full weight of its kind on the route     *)
(* (accident 30, construction 20, pothole 10, portal 5), no more at a        *)
(* greater distance, zero at 100 m and beyond; and the total is never        *)
(* negative.                                                                 *)
C27_PenaltyMonotonicInDistance ==
    [][Scored(routingStep')
           => LET type == routingStep'.hazards[1].type
                  alone == Len(routingStep'.hazards) = 1
                  total == routingStep'.result
              IN  /\ total >= 0
                  /\ (alone /\ OffsetOf(routingStep') = 0)
                         => total = StatedWeight(type) * HazardBufferMeters
                  /\ (alone /\ OffsetOf(routingStep') >= HazardBufferMeters) => total = 0
                  /\ alone => total <= StatedWeight(type) * HazardBufferMeters
                  /\ (/\ alone /\ Scored(routingStep)
                      /\ Len(routingStep.hazards) = 1
                      /\ routingStep.hazards[1].type = type
                      /\ OffsetOf(routingStep) <= OffsetOf(routingStep'))
                         => total <= routingStep.result]_vars

(* An accident 50 m from the road has just been scored at half its weight *)
C27_Witness ==
    /\ Scored(routingStep)
    /\ Len(routingStep.hazards) = 1
    /\ routingStep.hazards[1].type = "accident"
    /\ OffsetOf(routingStep) = 50
    /\ routingStep.result = 1500

----------------------------------------------------------------------------
(* The events of a deviation reroute *)

RerouteOutcomes(evs) ==
    {i \in 1..Len(evs) :
        \/ evs[i].event = "rerouteError"
        \/ evs[i].event = "routeUpdated" /\ evs[i].data.reason = "deviation"}

(* C28: a 'rerouting' event is followed, before the next 'rerouting' event, *)
(* by exactly one 'routeUpdated' with reason 'deviation' (currentRoute then *)
(* being the new route) or one 'rerouteError'.  The outcome is sent by the  *)
(* call that sent 'rerouting', when its route computation has settled: no   *)
(* 'rerouting' is sent while such a call is still waiting, and the call     *)
(* sends one outcome and leaves isRerouting false when it resumes.          *)
C28_ReroutingThenOneOutcome ==
    [][/\ CountOf(emitted', "rerouting") > 0 => PendingOf("deviation") = {}
       /\ lastOp' = "handlePositionUpdate.resume"
              => /\ Cardinality(RerouteOutcomes(emitted')) = 1
                 /\ ~isRerouting'
                 /\ \A i \in RerouteOutcomes(emitted') :
                        emitted'[i].event = "routeUpdated"
                            => currentRoute' = emitted'[i].data.route
      ]_vars

----------------------------------------------------------------------------
(* Tracking along the road: a session is started and samples arrive from on *)
(* the road between two route points, from 150 m beside it and from the end *)
(* of the route.  The provider may answer with a feature whose properties   *)
(* have no segments, for which parseORSResponse sets distance to 0.         *)

TrackSamples == {Pos(500, 0), Pos(1000, 150), Pos(2000, 0)}

StartNavigationResolvedNoSegments ==
    \E t \in PendingOf("start") :
        /\ Cardinality(liveWatches) < MaxWatches
        /\ Commit(startNavigationResolved(Resume(Ctl, t),
                      [parseORSResponse(t.start, t.end) EXCEPT !.distance = 0]),
                  "startNavigation.resume", "none", "ok", Null)

TrackedSample == \E newPosition \in TrackSamples : PositionUpdateAt(newPosition)

TrackedSampleDeviates == \E newPosition \in TrackSamples : PositionUpdateDeviatesAt(newPosition)

TrackingNext ==
    \/ StartNavigation
    \/ StartNavigationResolved
    \/ StartNavigationResolvedNoSegments
    \/ TrackedSample
    \/ TrackedSampleDeviates
    \/ DeviationResolved

TrackingSpec == Init /\ [][TrackingNext]_vars

(* The closest approach of a position to the route: its distance to the     *)
(* nearest point of the polyline                                            *)
ClosestApproach(position, route) == getMinDistanceToRoute(position, route.coordinates)

(* C29: a sample is classified as deviating exactly when its closest         *)
(* approach to the active route exceeds the deviation threshold of 100 m: a *)
(* sample on the polyline between two route points is not off route and     *)
(* starts no reroute.                                                       *)
C29_DeviationIsClosestApproach ==
    [][(lastOp' = "handlePositionUpdate" /\ lastAccepted' /= Null /\ currentRoute /= Null
            /\ controllerVars' /= controllerVars)
           => LET deviates ==
                      ClosestApproach(lastAccepted', currentRoute) > RouteDeviationThreshold
              IN  /\ CountOf(emitted', "rerouting") > 0 => deviates
                  /\ \A i \in 1..Len(emitted') :
                         emitted'[i].event = "positionUpdated"
                             => (emitted'[i].data.isOffRoute <=> deviates)]_vars

(* C30: once the statistics have been recomputed, routeProgress is a number *)
(* from 0 to 1 (0 to 1000 thousandths), also for a route with distance 0.   *)
C30_ProgressWithinUnitInterval ==
    "routeProgress" \in DOMAIN navigationStats
        => /\ ~isNaN(navigationStats.routeProgress)
           /\ navigationStats.routeProgress >= 0
           /\ navigationStats.routeProgress <= 1000

----------------------------------------------------------------------------
(* The session fields across overlapping calls *)

(* C33: isRerouting is true exactly while a route computation started by    *)
(* handleRouteDeviation or forceReroute is pending, also when forceReroute  *)
(* calls overlap and when startNavigation is called during a reroute.       *)
C33_IsReroutingTracksComputation ==
    isRerouting <=> BagCardinality(RerouteTasks) > 0

(* C34: while isNavigating is false, currentRoute and destination are null  *)
(* and no position subscription is held, also when stopNavigation runs      *)
(* while a route is awaited and after a failed startNavigation.             *)
C34_IdleHoldsNoSession ==
    ~isNavigating => /\ currentRoute = Null
                     /\ destination = Null
                     /\ watchId = NoWatch

SessionEvents(evs) ==
    {i \in 1..Len(evs) : evs[i].event \in {"navigationStarted", "navigationStopped"}}

(* C36: 'navigationStarted' is emitted only while isNavigating is true, and *)
(* the latest 'navigationStarted' or 'navigationStopped' event a listener   *)
(* has seen matches isNavigating.  Checked where this can first fail:       *)
(* at the end of each handler run that sends one of the two events and      *)
(* leaves no startNavigation call awaiting its route (such a call has set   *)
(* isNavigating and not yet sent its event), the last of them sent is       *)
(* 'navigationStarted' exactly if isNavigating is true.                     *)
C36_SessionEventsMatchState ==
    [][SessionEvents(emitted') /= {}
           => LET latest == CHOOSE i \in SessionEvents(emitted') :
                                \A j \in SessionEvents(emitted') : j <= i
              IN  /\ CountOf(emitted', "navigationStarted") > 0 => isNavigating'
                  /\ PendingOf("start")' = {}
                         => ((emitted'[latest].event = "navigationStarted") <=> isNavigating')
      ]_vars

(* C37: a call of handlePositionUpdate ends without an error, whatever runs *)
(* between its start and the end of the reroute it awaits.                  *)
C37_PositionUpdateNeverThrows ==
    lastOp \in PositionOps => lastResult /= "threw"

----------------------------------------------------------------------------
(* Guidance: the statistics updateNavigationStats computes besides the      *)
(* distances, for a session on the road from acc-1 to const-1 of the mock   *)
(* data.  A route carries the instructions of the provider's first segment, *)
(* or the one instruction of the fallback route.                            *)

HazardLookAhead == 1000     \* settings.hazardLookAhead, metres
UpcomingBuffer == 50        \* the buffer getUpcomingHazards passes on, metres

(* An instruction; a field the provider left out is written "" *)
Instruction(instruction, distance, type) ==
    [instruction |-> instruction, distance |-> distance, type |-> type]

(* findNextTurn(currentIndex), the index counted from 0 *)
findNextTurn(route, currentIndex) ==
    IF "instructions" \notin DOMAIN route \/ currentIndex >= Len(route.instructions)
    THEN Null
    ELSE LET instructions == route.instructions
             ahead == {i \in 1..Len(instructions) : instructions[i].distance > 0}
         IN  IF ahead = {} THEN Null
             ELSE LET found == instructions[CHOOSE i \in ahead : \A j \in ahead : i <= j]
                  IN  Instruction(IF found.instruction = "" THEN "Continue straight"
                                  ELSE found.instruction,
                                  found.distance,
                                  IF found.type = "" THEN "straight" ELSE found.type)

(* { ...hazard, distanceFromUser } *)
WithDistanceFromUser(hazard, distance) ==
    [id |-> hazard.id, type |-> hazard.type, geometry |-> hazard.geometry,
     properties |-> hazard.properties, distanceToRoute |-> hazard.distanceToRoute,
     distanceFromUser |-> distance]

(* The forEach over routeHazards: what is pushed for the hazards from i on *)
RECURSIVE withinLookAhead(_, _, _, _)
withinLookAhead(routeHazards, position, lookAheadMeters, i) ==
    IF i > Len(routeHazards) THEN <<>>
    ELSE LET hazard == routeHazards[i]
             rest == withinLookAhead(routeHazards, position, lookAheadMeters, i + 1)
         IN  IF hazard.geometry.type = "Point"
             THEN LET distanceFromUser ==
                          haversineDistance(position, hazard.geometry.coordinates)
                  IN  IF distanceFromUser <= lookAheadMeters
                      THEN <<WithDistanceFromUser(hazard, distanceFromUser)>> \o rest
                      ELSE rest
             ELSE rest

(* upcoming.sort((a, b) => a.distanceFromUser - b.distanceFromUser), stable *)
RECURSIVE sortByDistanceFromUser(_)
sortByDistanceFromUser(array) ==
    IF Len(array) <= 1 THEN array
    ELSE LET sorted == sortByDistanceFromUser(SubSeq(array, 1, Len(array) - 1))
             last == array[Len(array)]
             k == Cardinality({i \in 1..Len(sorted) :
                                  sorted[i].distanceFromUser <= last.distanceFromUser})
         IN  SubSeq(sorted, 1, k) \o <<last>> \o SubSeq(sorted, k + 1, Len(sorted))

getUpcomingHazards(store, position, route, lookAheadMeters) ==
    IF route = Null \/ "coordinates" \notin DOMAIN route THEN <<>>
    ELSE sortByDistanceFromUser(
             withinLookAhead(filterHazardsByRoute(store, route, UpcomingBuffer).result,
                             position, lookAheadMeters, 1))

(* updateNavigationStats with every field of the statistics it assigns *)
updateNavigationStatsInFull(route, position, stats, store) ==
    IF route = Null \/ position = Null THEN stats
    ELSE LET distances == updateNavigationStats(route, position, stats)
             closestIndex == findClosestIndex(position, route.coordinates) - 1
         IN  [distanceRemaining |-> distances.distanceRemaining,
              timeRemaining |-> distances.timeRemaining,
              nextTurn |-> findNextTurn(route, closestIndex),
              upcomingHazards |-> getUpcomingHazards(store, position, route, HazardLookAhead),
              routeProgress |-> distances.routeProgress]

(* The handler's outcome with the statistics it computed written in full,   *)
(* in this.navigationStats and in the 'positionUpdated' payload             *)
WithStatistics(s, stats) ==
    [s EXCEPT !.navigationStats = stats,
              !.events = [i \in 1..Len(s.events) |->
                             IF s.events[i].event = "positionUpdated"
                             THEN Event("positionUpdated",
                                        [s.events[i].data EXCEPT !.stats = stats])
                             ELSE s.events[i]]]

(* The steps of the first segment the provider may send: a turn and the     *)
(* arrival; a start of no length, then the way; one step for the whole way; *)
(* only the arrival; none                                                   *)
ProviderSteps ==
    << <<Instruction("Head south", 600, "depart"), Instruction("Turn left", 571, "left"),
         Instruction("Arrive", 0, "arrive")>>,
       <<Instruction("", 0, ""), Instruction("", 1171, "")>>,
       <<Instruction("Head south", 1171, "depart")>>,
       <<Instruction("Arrive", 0, "arrive")>>,
       <<>> >>

(* createFallbackRoute's instructions: one, for the whole distance *)
fallbackInstructions(route) ==
    <<Instruction("Head toward destination", route.distance, "")>>

WithInstructions(route, instructions) ==
    [id |-> route.id, coordinates |-> route.coordinates, distance |-> route.distance,
     instructions |-> instructions]

(* getBestRoute's result: the provider's road with the steps of answer k,   *)
(* or the fallback route if the provider failed (k = 0)                     *)
guidedRoute(start, end, k) ==
    IF k = 0
    THEN LET route == createFallbackRoute(start, end)
         IN  WithInstructions(route, fallbackInstructions(route))
    ELSE WithInstructions(parseORSResponse(start, end), ProviderSteps[k])

Midway(a, b) == Pos((a.x + b.x) \div 2, (a.y + b.y) \div 2)

GuidanceSamples ==
    {Acc1Position, East(Acc1Position, 30), Midway(Acc1Position, Const1Position),
     East(Const1Position, 60), Const1Position}

StartGuidance ==
    /\ BagCardinality(pending) < MaxPending
    /\ Commit(startNavigationCall(Ctl, Const1Position, Acc1Position),
              "startNavigation", "start", "none", Null)

GuidanceResolved ==
    \E t \in PendingOf("start"), k \in 0..Len(ProviderSteps) :
        /\ Cardinality(liveWatches) < MaxWatches
        /\ LET route == guidedRoute(t.start, t.end, k)
               s == startNavigationResolved(Resume(Ctl, t), route)
           IN  Commit(WithStatistics(s,
                          updateNavigationStatsInFull(route, s.currentPosition,
                              navigationStats, storedHazards)),
                      "startNavigation.resume", "none",
                      IF k = 0 THEN "failed" ELSE "ok", Null)

(* handlePositionUpdate for a sample that starts no reroute *)
GuidedSample ==
    \E newPosition \in GuidanceSamples :
        /\ liveWatches /= {}
        /\ isNavigating /\ currentRoute /= Null
        /\ LET off == isOffRouteAt(newPosition, currentRoute)
               s == positionUpdateTail([Ctl EXCEPT !.currentPosition = newPosition],
                                       newPosition, off)
           IN  /\ ~(off /\ ~isRerouting /\ ~TooSoon(now, lastRerouteTime))
               /\ Commit(WithStatistics(s,
                             updateNavigationStatsInFull(currentRoute, newPosition,
                                 navigationStats, storedHazards)),
                         "handlePositionUpdate", "none", "none", newPosition)

GuidanceNext ==
    \/ StartGuidance
    \/ GuidanceResolved
    \/ GuidedSample

GuidanceSpec == Init /\ [][GuidanceNext]_vars

(* The route and the position a step computed the statistics for *)
StatisticsStep ==
    /\ lastOp' \in {"startNavigation.resume", "handlePositionUpdate"}
    /\ "nextTurn" \in DOMAIN navigationStats'

RouteOfStatistics == IF lastOp' = "startNavigation.resume" THEN currentRoute' ELSE currentRoute

(* C31: nextTurn is the first instruction of the route, in sequence order,  *)
(* whose distance is positive, whenever there is one, at every closest      *)
(* vertex; it is null only when no instruction has a positive distance.     *)
C31_NextTurnIsFirstPositive ==
    [][StatisticsStep
           => LET instructions == RouteOfStatistics.instructions
                  ahead == {i \in 1..Len(instructions) : instructions[i].distance > 0}
                  nextTurn == navigationStats'.nextTurn
              IN  IF ahead = {} THEN nextTurn = Null
                  ELSE /\ nextTurn /= Null
                       /\ nextTurn.distance =
                              instructions[CHOOSE i \in ahead : \A j \in ahead : i <= j].distance
      ]_vars

(* A hazard within the look-ahead radius of the agent: a point by its       *)
(* distance, an area when every vertex of its ring is within the radius,    *)
(* so that all of the area is, however its distance is measured             *)
WithinLookAhead(position, hazard, lookAheadMeters) ==
    IF hazard.geometry.type = "Point"
    THEN haversineDistance(position, hazard.geometry.coordinates) <= lookAheadMeters
    ELSE \A v \in Range(hazard.geometry.coordinates[1]) :
             haversineDistance(position, v) <= lookAheadMeters

(* C32: upcomingHazards holds the hazards of the route query on the current *)
(* route that lie within hazardLookAhead of the current position, points    *)
(* and areas alike, in ascending order of their distance from the agent.    *)
C32_UpcomingIsRouteQueryWithinLookAhead ==
    [][StatisticsStep
           => LET query == filterHazardsByRoute(storedHazards, RouteOfStatistics,
                                                UpcomingBuffer).result
                  expected == {query[i].id : i \in
                                  {j \in 1..Len(query) :
                                      WithinLookAhead(currentPosition', query[j],
                                                      HazardLookAhead)}}
                  upcoming == navigationStats'.upcomingHazards
              IN  /\ {upcoming[i].id : i \in 1..Len(upcoming)} = expected
                  /\ Len(upcoming) = Cardinality(expected)
                  /\ \A i \in 1..Len(upcoming), j \in 1..Len(upcoming) :
                         i < j => upcoming[i].distanceFromUser <= upcoming[j].distanceFromUser
      ]_vars

----------------------------------------------------------------------------
(* Sessions to two destinations: startNavigation is called for either of    *)
(* them while earlier calls may still await their routes                    *)

SessionDestinations == {Pos(2000, 0), Pos(0, 2000)}

StartNavigationTo ==
    \E dest \in SessionDestinations, position \in StartPositions :
        /\ BagCardinality(pending) < MaxPending
        /\ Commit(startNavigationCall(Ctl, dest, position), "startNavigation", "start", "none", Null)

SessionNext ==
    \/ StartNavigationTo
    \/ StartNavigationResolved
    \/ StopNavigation
    \/ ForceReroute
    \/ ForceRerouteResolved

SessionSpec == Init /\ [][SessionNext]_vars

(* The place a route leads to: its last coordinate *)
EndOf(route) == route.coordinates[Len(route.coordinates)]

(* C35: while the controller is active with a route, that route was         *)
(* computed for the current destination: a computation started for an       *)
(* earlier session or destination never becomes currentRoute.               *)
C35_RouteBelongsToSession ==
    (isNavigating /\ currentRoute /= Null) => EndOf(currentRoute) = destination

----------------------------------------------------------------------------
(* Hazards that leave the store *)

StoredIds(store) == {store[i].id : i \in 1..Len(store)}

RemovalNotices(step, id) ==
    {i \in 1..Len(step.notifications) :
        step.notifications[i].event = "hazardRemoved" /\ step.notifications[i].id = id}

(* C38: when a hazard stops being returned by getAllHazards, by removeHazard *)
(* or by the expiry sweep, every registered listener is called exactly once *)
(* with 'hazardRemoved' for it.                                             *)
C38_RemovalsAreAnnounced ==
    [][\A id \in StoredIds(storedHazards) \ StoredIds(storedHazards') :
           listeners /= <<>>
               => /\ Cardinality(RemovalNotices(hazardStep', id)) = 1
                  /\ \A i \in RemovalNotices(hazardStep', id) :
                         hazardStep'.notifications[i].called = listeners
      ]_vars

----------------------------------------------------------------------------
(* Callbacks that change the listeners while a notification is delivered:   *)
(* one that removes itself when called and one that registers another       *)
(* callback.  Array.prototype.forEach reads the length once, then visits    *)
(* the indices below it that the array still has, in the array as it is     *)
(* when the index is reached.                                               *)

DeliveryCallbacks == Callbacks \cup {"oneShotListener", "subscribingListener"}

(* this.listeners after the callback has run *)
afterCallback(array, callback) ==
    CASE callback = "oneShotListener" -> removeListener(array, callback)
      [] callback = "subscribingListener" -> Append(array, "handleHazardEvent")
      [] OTHER -> array

RECURSIVE forEachListener(_, _, _, _)
forEachListener(array, k, len, called) ==
    IF k > len THEN [called |-> called, listeners |-> array]
    ELSE IF k > Len(array) THEN forEachListener(array, k + 1, len, called)
    ELSE forEachListener(afterCallback(array, array[k]), k + 1, len,
                         Append(called, array[k]))

(* One notifyListeners call: the callbacks called and the array it leaves *)
notifyForEach(ls) == forEachListener(ls, 1, Len(ls), <<>>)

(* The notifyListeners calls of a handler, one after the other *)
RECURSIVE deliverForEach(_, _, _)
deliverForEach(ls, events, i) ==
    IF i > Len(events) THEN [deliveries |-> <<>>, listeners |-> ls]
    ELSE LET notified == notifyForEach(ls)
             rest == deliverForEach(notified.listeners, events, i + 1)
         IN  [deliveries |-> <<Delivery(events[i].event, notified.called)>> \o rest.deliveries,
              listeners |-> rest.listeners]

NavSubscribe ==
    \E callback \in DeliveryCallbacks :
        /\ Len(navListeners) < MaxListeners
        /\ NavListenerCommit("addListener", Append(navListeners, callback))

StopNavigationNotifies ==
    LET s == stopNavigation(Ctl)
        delivered == deliverForEach(navListeners, s.events, 1)
    IN  /\ Len(delivered.listeners) <= MaxListeners
        /\ CommitDelivered(s, "stopNavigation", "none", "none", Null,
                           delivered.listeners, delivered.deliveries)

Subscribe ==
    \E callback \in DeliveryCallbacks :
        /\ Len(listeners) < MaxListeners
        /\ HazardCommit("addListener", callback, HazardOutcome(Null, storedHazards, <<>>),
                        Append(listeners, callback))

RemoveHazardNotifies ==
    \E hazardId \in RemovableIds :
        LET outcome == removeHazard(storedHazards, listeners, hazardId)
            notified == notifyForEach(listeners)
        IN  IF outcome.notifications = <<>>
            THEN HazardCommit("removeHazard", hazardId, outcome, listeners)
            ELSE /\ Len(notified.listeners) <= MaxListeners
                 /\ HazardCommit("removeHazard", hazardId,
                        HazardOutcome(outcome.result, outcome.store,
                            <<Notification("hazardRemoved", outcome.result, notified.called)>>),
                        notified.listeners)

DeliveryNext ==
    \/ NavSubscribe
    \/ StopNavigationNotifies
    \/ Subscribe
    \/ RemoveHazardNotifies

DeliverySpec == Init /\ [][DeliveryNext]_vars

(* C39: every listener registered when a notification starts receives the  *)
(* event exactly once, also when a callback removes a listener or adds one  *)
(* during the delivery: the callbacks called for the notification of a      *)
(* step are the listeners registered before it, each once, in both services.*)
C39_DeliveryCompleteUnderChanges ==
    [][/\ navDelivered' /= <<>> => navDelivered'[1].called = navListeners
       /\ (hazardStep' /= hazardStep)
              => \A i \in 1..Len(hazardStep'.notifications) :
                     hazardStep'.notifications[i].called = listeners
      ]_vars

----------------------------------------------------------------------------
(* The order of the provider's list *)

(* The routes getBestRoute may return for the candidates listed in this     *)
(* order, by their coordinates                                              *)
ReturnedFor(order) ==
    {routeObjects[sorted[1]].coordinates : sorted \in SortOutcomes(routeObjects, order)}

(* C40: for the same candidate routes and the same hazards, getBestRoute    *)
(* returns the same route for every order in which the provider lists the   *)
(* candidates.                                                              *)
C40_BestRouteIsOrderIndependent ==
    routingStep.route /= <<>>
        => \A order \in ArrayOrders(routingStep.options) :
               ReturnedFor(order) = {routeObjects[routingStep.route[1]].coordinates}

====
